---- MODULE Spec2Model ----
(***************************************************************************)
(* Catalog reconciliation engine of product-data-odoo: the variant builder *)
(* pass (tools/variant_builder.py) over the merged product collection.     *)
(*                                                                         *)
(* Python strings are sequences of one-character strings, so that lower(), *)
(* strip(), split(), the substring test and digit extraction are computed  *)
(* as the code computes them.  Python dicts are sequences of <<key,value>> *)
(* pairs in insertion order.  None is the value None below.                *)
(***************************************************************************)
EXTENDS Integers, Sequences, FiniteSets, TLC

VARIABLES
    clear_products,      \* pattern-extracted records (parsed_results.json)
    llm_products,        \* semantic-extracted records (llm_parsed_results.json)
    template_data,       \* template snapshot: dict template_id -> template_info
    existing_variants,   \* existing-variant snapshot: dict variant_id -> variant_info
    template_skus,       \* default_code column of templates/new_templates.csv
    all_products,        \* merged product collection
    generation_stats,    \* statistics counters
    variant_imports,     \* emitted variant records
    missing_skus,        \* miss report
    result,              \* returned dict of the tool
    pc,                  \* position of the pass
    idx,                 \* 1-based position of the loop over all_products
    matching_template,   \* loop local
    existing_variant_id, \* loop local
    template_value_ids,  \* loop local
    log,                 \* history: stages and counters per processed product
    run,                 \* number of the current run of the tool
    first_run,           \* history: outputs of the first run
    df,                  \* rows of the export a loader reads
    existing_attributes, \* vocabulary snapshot: dict name -> attribute info
    attribute_data,      \* attributes and values collected from the products
    existing_attr_csv_data, \* new-value rows for existing attributes
    new_attr_csv_data,   \* rows for new attributes
    reuse_stats,         \* counters of the attribute builder
    odoo_product_template_file, \* rows of the template export
    odoo_product_variant_csv,   \* rows of odoo_product_variant.csv
    unclear_products,    \* records the pattern extractor could not settle
    processed_products,  \* the minimal inputs of the semantic extractor
    batches,             \* processed_products in chunks of batch_size
    all_parsed_results,  \* records of the semantic stream so far
    batch_num,           \* 1-based position of the loop over batches
    batch_log,           \* history: outcome and records of each chunk
    tb_templates,        \* template builder: dict template name -> group
    existing_template_updates, \* rows of existing_template_updates.csv
    new_templates,       \* rows of new_templates.csv
    template_summary,    \* dict template name -> summary
    hardware_attributes, \* hardware handler: the shared attribute and its value rows
    hardware_templates,  \* hardware handler: template rows
    hardware_variants    \* hardware handler: variant rows

vars == <<clear_products, llm_products, template_data, existing_variants,
          template_skus, all_products, generation_stats, variant_imports,
          missing_skus, result, pc, idx, matching_template,
          existing_variant_id, template_value_ids, log, run, first_run,
          df, existing_attributes, attribute_data, existing_attr_csv_data,
          new_attr_csv_data, reuse_stats, odoo_product_template_file,
          odoo_product_variant_csv, unclear_products, processed_products,
          batches, all_parsed_results, batch_num, batch_log, tb_templates,
          existing_template_updates, new_templates, template_summary,
          hardware_attributes, hardware_templates, hardware_variants>>

inputs == <<clear_products, llm_products, template_data, existing_variants,
            template_skus>>

\* the state of the other builder tools
files == <<odoo_product_template_file, odoo_product_variant_csv>>

\* the state of the batch loop of run_async
batching == <<unclear_products, processed_products, batches,
              all_parsed_results, batch_num, batch_log>>

\* the files the template builder writes
tb_outputs == <<existing_template_updates, new_templates, template_summary>>

\* the files the hardware handler writes
hw_outputs == <<hardware_attributes, hardware_templates, hardware_variants>>

builders == <<df, existing_attributes, attribute_data, existing_attr_csv_data,
              new_attr_csv_data, reuse_stats, files, batching, tb_templates,
              tb_outputs, hw_outputs>>

\* the state of the variant builder pass
pass == <<all_products, generation_stats, variant_imports, missing_skus,
          result, idx, matching_template, existing_variant_id,
          template_value_ids, log, run, first_run>>

(***************************************************************************)
(* Bounds of the model.                                                    *)
(***************************************************************************)
MaxProducts == 2
MaxLlm == 1
MaxTemplates == 2
MaxVariants == 1
MaxRuns == 2
MaxNameLen == 2
MaxMatchTemplates == 2
MaxAxes == 2
MaxVocab == 2
MaxAttrs == 2
MaxStored == 2
MaxRows == 2
MaxAttrProducts == 1
MaxTemplateRows == 2
MaxVariantRows == 2
MaxUnclear == 3
MaxParsed == 1
\* batch_size of run_async, 20 in the code
batch_size == 2

(***************************************************************************)
(* Python string primitives.                                               *)
(***************************************************************************)
None == <<"<None>">>

Digits == {"0", "1", "2", "3", "4", "5", "6", "7", "8", "9"}

Whitespace == {" ", "\t", "\n", "\r"}

LowerChar(c) ==
    CASE c = "A" -> "a" [] c = "B" -> "b" [] c = "C" -> "c" [] c = "D" -> "d"
      [] c = "E" -> "e" [] c = "F" -> "f" [] c = "G" -> "g" [] c = "H" -> "h"
      [] c = "I" -> "i" [] c = "J" -> "j" [] c = "K" -> "k" [] c = "L" -> "l"
      [] c = "M" -> "m" [] c = "N" -> "n" [] c = "O" -> "o" [] c = "P" -> "p"
      [] c = "Q" -> "q" [] c = "R" -> "r" [] c = "S" -> "s" [] c = "T" -> "t"
      [] c = "U" -> "u" [] c = "V" -> "v" [] c = "W" -> "w" [] c = "X" -> "x"
      [] c = "Y" -> "y" [] c = "Z" -> "z" [] OTHER -> c

\* str.lower()
Lower(s) == [i \in 1..Len(s) |-> LowerChar(s[i])]

RECURSIVE LStrip(_)
LStrip(s) == IF s # <<>> /\ Head(s) \in Whitespace THEN LStrip(Tail(s)) ELSE s

RECURSIVE RStrip(_)
RStrip(s) ==
    IF s # <<>> /\ s[Len(s)] \in Whitespace
    THEN RStrip(SubSeq(s, 1, Len(s) - 1)) ELSE s

\* str.strip()
Strip(s) == RStrip(LStrip(s))

\* a in b, for strings
Contains(a, b) ==
    \E i \in 0..(Len(b) - Len(a)) : SubSeq(b, i + 1, i + Len(a)) = a

\* set(s.split()): the maximal runs of non-whitespace characters of s
Words(s) ==
    { SubSeq(s, i, j) : <<i, j>> \in
        { p \in (1..Len(s)) \X (1..Len(s)) :
            /\ p[1] <= p[2]
            /\ \A k \in p[1]..p[2] : s[k] \notin Whitespace
            /\ (p[1] = 1 \/ s[p[1] - 1] \in Whitespace)
            /\ (p[2] = Len(s) \/ s[p[2] + 1] \in Whitespace) } }

\* str.isdigit()
IsDigit(s) == s # <<>> /\ \A i \in 1..Len(s) : s[i] \in Digits

\* s.replace(c, '') for a one-character c
RECURSIVE RemoveChar(_, _)
RemoveChar(s, c) ==
    IF s = <<>> THEN <<>>
    ELSE IF Head(s) = c THEN RemoveChar(Tail(s), c)
    ELSE <<Head(s)>> \o RemoveChar(Tail(s), c)

\* s.replace('mg', '')
RECURSIVE RemoveMg(_)
RemoveMg(s) ==
    IF Len(s) < 2 THEN s
    ELSE IF s[1] = "m" /\ s[2] = "g" THEN RemoveMg(SubSeq(s, 3, Len(s)))
    ELSE <<Head(s)>> \o RemoveMg(Tail(s))

\* length of the run of digits of s that starts at position i
RECURSIVE DigitRun(_, _)
DigitRun(s, i) ==
    IF i <= Len(s) /\ s[i] \in Digits THEN 1 + DigitRun(s, i + 1) ELSE 0

\* re.findall(r'\d+(?:\.\d+)?', s)[0], or <<>> when findall returns []
FirstNumber(s) ==
    IF \A i \in 1..Len(s) : s[i] \notin Digits THEN <<>>
    ELSE LET b == CHOOSE i \in 1..Len(s) :
                      s[i] \in Digits /\ \A k \in 1..(i - 1) : s[k] \notin Digits
             n == DigitRun(s, b)
             e == b + n
             f == IF e <= Len(s) /\ s[e] = "." THEN DigitRun(s, e + 1) ELSE 0
         IN  IF f > 0 THEN SubSeq(s, b, e + f) ELSE SubSeq(s, b, e - 1)

\* x or '' followed by strip(), as applied to names
NameOf(x) == IF x = None THEN <<>> ELSE Strip(x)

(***************************************************************************)
(* Dicts as sequences of <<key, value>> pairs.                             *)
(***************************************************************************)
HasKey(d, k) == \E i \in 1..Len(d) : d[i][1] = k

Get(d, k) == d[CHOOSE i \in 1..Len(d) : d[i][1] = k][2]

\* d[k] = v
Put(d, k, v) ==
    IF HasKey(d, k)
    THEN [i \in 1..Len(d) |-> IF d[i][1] = k THEN <<k, v>> ELSE d[i]]
    ELSE Append(d, <<k, v>>)

(***************************************************************************)
(* String literals of the code.                                            *)
(***************************************************************************)
K_flavor == <<"f", "l", "a", "v", "o", "r">>
K_nicotine_mg == <<"n", "i", "c", "o", "t", "i", "n", "e", "_", "m", "g">>
K_volume_ml == <<"v", "o", "l", "u", "m", "e", "_", "m", "l">>
K_color == <<"c", "o", "l", "o", "r">>
K_resistance_ohm == <<"r", "e", "s", "i", "s", "t", "a", "n", "c", "e", "_", "o", "h", "m">>
K_coil_type == <<"c", "o", "i", "l", "_", "t", "y", "p", "e">>
K_index == <<"i", "n", "d", "e", "x">>
K_brand == <<"b", "r", "a", "n", "d">>
K_product_name == <<"p", "r", "o", "d", "u", "c", "t", "_", "n", "a", "m", "e">>
K_name == <<"n", "a", "m", "e">>
K_sku == <<"s", "k", "u">>
K_price == <<"p", "r", "i", "c", "e">>
K_confidence == <<"c", "o", "n", "f", "i", "d", "e", "n", "c", "e">>
K_nicotine == <<"n", "i", "c", "o", "t", "i", "n", "e">>
K_nicotine_level == <<"n", "i", "c", "o", "t", "i", "n", "e", "_", "l", "e", "v", "e", "l">>
K_nicotine_sp_level == <<"n", "i", "c", "o", "t", "i", "n", "e", " ", "l", "e", "v", "e", "l">>
K_size == <<"s", "i", "z", "e">>
K_resistance == <<"r", "e", "s", "i", "s", "t", "a", "n", "c", "e">>
K_ohm == <<"o", "h", "m">>
K_volume == <<"v", "o", "l", "u", "m", "e">>
K_coil_sp_type == <<"c", "o", "i", "l", " ", "t", "y", "p", "e">>
K_coil_model == <<"c", "o", "i", "l", "_", "m", "o", "d", "e", "l">>
K_model == <<"m", "o", "d", "e", "l">>

(***************************************************************************)
(* _combine_product_data.  A source record is a function from the JSON     *)
(* keys it carries to their values; a key absent from DOMAIN is a key the  *)
(* record does not have.  Attribute values are strings or None, so str()   *)
(* leaves a value that is not None as it is.                               *)
(***************************************************************************)
\* dict.get(f, default)
GetF(r, f, default) == IF f \in DOMAIN r THEN r[f] ELSE default

\* the product-level attribute names read from a semantic record, in order
DirectAttrNames ==
    << <<"flavor", K_flavor>>, <<"nicotine_mg", K_nicotine_mg>>,
       <<"volume_ml", K_volume_ml>>, <<"color", K_color>>,
       <<"resistance_ohm", K_resistance_ohm>>, <<"coil_type", K_coil_type>> >>

\* keys of a nested attributes dict that are not attributes
NestedExcluded == {K_index, K_brand, K_product_name, K_name, K_sku, K_price}

\* keys of regex_result that are not attributes
RegexExcluded == {K_product_name, K_confidence}

\* for key, value in d.items(): if key not in excluded and value is not None:
\*     attributes[key] = str(value)
RECURSIVE AddItems(_, _, _)
AddItems(attributes, d, excluded) ==
    IF d = <<>> THEN attributes
    ELSE LET key == d[1][1]
             value == d[1][2]
         IN  AddItems(IF key \notin excluded /\ value # None
                      THEN Put(attributes, key, value) ELSE attributes,
                      Tail(d), excluded)

\* for attr_name in [...]: if attr_name in p and p[attr_name] is not None: ...
RECURSIVE AddDirect(_, _, _)
AddDirect(attributes, p, names) ==
    IF names = <<>> THEN attributes
    ELSE LET f == names[1][1]
         IN  AddDirect(IF f \in DOMAIN p /\ p[f] # None
                       THEN Put(attributes, names[1][2], p[f]) ELSE attributes,
                       p, Tail(names))

\* the attributes dict built from a semantic record
LlmAttributes(p) ==
    LET direct == AddDirect(<<>>, p, DirectAttrNames)
    IN  IF "attributes" \in DOMAIN p
        THEN AddItems(direct, p["attributes"], NestedExcluded) ELSE direct

\* the combined record built from a semantic record
LlmCombined(index, p) ==
    [index |-> index,
     name |-> GetF(p, "name", <<>>),
     sku |-> GetF(p, "sku", <<>>),
     price |-> GetF(p, "price", 0),
     product_name |-> GetF(p, "product_name", <<>>),
     brand |-> GetF(p, "brand", <<>>),
     source |-> "llm",
     attributes |-> LlmAttributes(p)]

\* if f in product: attributes[f] = str(product[f]) if ... is not None else ''
RECURSIVE AddRegexFields(_, _, _)
AddRegexFields(attributes, p, names) ==
    IF names = <<>> THEN attributes
    ELSE LET f == names[1][1]
         IN  AddRegexFields(IF f \in DOMAIN p
                            THEN Put(attributes, names[1][2],
                                     IF p[f] # None THEN p[f] ELSE <<>>)
                            ELSE attributes,
                            p, Tail(names))

\* the attributes dict built from a pattern record
RegexAttributes(p) ==
    AddItems(AddRegexFields(<<>>, p, SubSeq(DirectAttrNames, 1, 3)),
             GetF(p, "regex_result", <<>>), RegexExcluded)

\* the combined record built from a pattern record
RegexCombined(index, p) ==
    [index |-> index,
     name |-> GetF(p, "name", <<>>),
     sku |-> GetF(p, "sku", <<>>),
     price |-> GetF(p, "price", 0),
     product_name |-> GetF(p, "product_name", <<>>),
     brand |-> GetF(p, "brand", <<>>),
     source |-> "regex",
     attributes |-> RegexAttributes(p)]

\* llm_by_index: the last semantic record of each index that is not None
HasLlmIndex(llm, index) ==
    \E k \in 1..Len(llm) : "index" \in DOMAIN llm[k] /\ llm[k].index = index

LlmByIndex(llm, index) ==
    llm[CHOOSE k \in 1..Len(llm) :
            /\ "index" \in DOMAIN llm[k] /\ llm[k].index = index
            /\ \A m \in (k + 1)..Len(llm) :
                   ~("index" \in DOMAIN llm[m] /\ llm[m].index = index)]

\* a first loop that fills the fields a semantic record lacks from the
\* pattern record
CombineClear_fieldwise(clear, llm) ==
    [i \in 1..Len(clear) |->
        LET index == GetF(clear[i], "index", i - 1)
            merged == [f \in DOMAIN clear[i] \cup DOMAIN LlmByIndex(llm, index) |->
                          IF f \in DOMAIN LlmByIndex(llm, index)
                          THEN LlmByIndex(llm, index)[f] ELSE clear[i][f]]
        IN  IF HasLlmIndex(llm, index)
            THEN LlmCombined(index, merged)
            ELSE RegexCombined(index, clear[i])]

\* first loop: one combined record per pattern record, in order
CombineClear(clear, llm) ==
    [i \in 1..Len(clear) |->
        LET index == GetF(clear[i], "index", i - 1)
        IN  IF HasLlmIndex(llm, index)
            THEN LlmCombined(index, LlmByIndex(llm, index))
            ELSE RegexCombined(index, clear[i])]

\* second loop: the semantic records whose index is not yet combined
RECURSIVE AppendLlmOnly(_, _)
AppendLlmOnly(combined, llm) ==
    IF llm = <<>> THEN combined
    ELSE LET p == llm[1]
         IN  AppendLlmOnly(
                 IF /\ "index" \in DOMAIN p
                    /\ ~\E k \in 1..Len(combined) : combined[k].index = p.index
                 THEN Append(combined, LlmCombined(p.index, p))
                 ELSE combined,
                 Tail(llm))

CombineProductData(clear, llm) == AppendLlmOnly(CombineClear(clear, llm), llm)

(***************************************************************************)
(* _find_matching_template.  A template_info is a record                   *)
(* [template_id, template_name, attribute_values]; attribute_values is the *)
(* dict axis name -> (dict value name -> template value id).               *)
(***************************************************************************)
NoTemplate ==
    [template_id |-> "None", template_name |-> <<>>, attribute_values |-> <<>>]

\* the name a product is matched by: product_name, else name, stripped
ProductMatchName(product) ==
    IF NameOf(product.product_name) # <<>>
    THEN NameOf(product.product_name) ELSE NameOf(product.name)

\* overlap / min(len(w1), len(w2)) >= num / 10 for two non-empty word sets
WordOverlapAtLeast(w1, w2, num) ==
    LET m == IF Cardinality(w1) <= Cardinality(w2)
             THEN Cardinality(w1) ELSE Cardinality(w2)
    IN  /\ w1 # {} /\ w2 # {}
        /\ 10 * Cardinality(w1 \cap w2) >= num * m

\* a second loop that accepts half of the words
TemplateFuzzyMatch_half(product_name_lower, template_name) ==
    \/ Contains(product_name_lower, template_name)
    \/ Contains(template_name, product_name_lower)
    \/ WordOverlapAtLeast(Words(product_name_lower), Words(template_name), 5)

\* the test of the second loop for one template
TemplateFuzzyMatch(product_name_lower, template_name) ==
    \/ Contains(product_name_lower, template_name)
    \/ Contains(template_name, product_name_lower)
    \/ WordOverlapAtLeast(Words(product_name_lower), Words(template_name), 7)

\* a matcher that runs the second loop before the exact one
FindMatchingTemplate_fuzzyfirst(product, templates) ==
    LET product_name == ProductMatchName(product)
        exact == { k \in 1..Len(templates) :
                     NameOf(templates[k].template_name) = product_name }
        fuzzy == { k \in 1..Len(templates) :
                     TemplateFuzzyMatch(Lower(product_name),
                         Lower(NameOf(templates[k].template_name))) }
        first(S) == CHOOSE k \in S : \A m \in S : k <= m
    IN  IF product_name = <<>> THEN NoTemplate
        ELSE IF fuzzy # {} THEN templates[first(fuzzy)]
        ELSE IF exact # {} THEN templates[first(exact)]
        ELSE NoTemplate

\* a matcher that tries containment on every template before word overlap
FindMatchingTemplate_rulewise(product, templates) ==
    LET product_name == ProductMatchName(product)
        exact == { k \in 1..Len(templates) :
                     NameOf(templates[k].template_name) = product_name }
        contained == { k \in 1..Len(templates) :
                     LET template_name == Lower(NameOf(templates[k].template_name))
                     IN  \/ Contains(Lower(product_name), template_name)
                         \/ Contains(template_name, Lower(product_name)) }
        fuzzy == { k \in 1..Len(templates) :
                     TemplateFuzzyMatch(Lower(product_name),
                         Lower(NameOf(templates[k].template_name))) }
        first(S) == CHOOSE k \in S : \A m \in S : k <= m
    IN  IF product_name = <<>> THEN NoTemplate
        ELSE IF exact # {} THEN templates[first(exact)]
        ELSE IF contained # {} THEN templates[first(contained)]
        ELSE IF fuzzy # {} THEN templates[first(fuzzy)]
        ELSE NoTemplate

FindMatchingTemplate(product, templates) ==
    LET product_name == ProductMatchName(product)
        exact == { k \in 1..Len(templates) :
                     NameOf(templates[k].template_name) = product_name }
        fuzzy == { k \in 1..Len(templates) :
                     TemplateFuzzyMatch(Lower(product_name),
                         Lower(NameOf(templates[k].template_name))) }
        first(S) == CHOOSE k \in S : \A m \in S : k <= m
    IN  IF product_name = <<>> THEN NoTemplate
        ELSE IF exact # {} THEN templates[first(exact)]
        ELSE IF fuzzy # {} THEN templates[first(fuzzy)]
        ELSE NoTemplate

(***************************************************************************)
(* _find_best_value_match and _find_template_value_combination.            *)
(***************************************************************************)
\* the test of the third loop for one template value
ValuePartialMatch(product_value_lower, template_lower) ==
    \/ Contains(product_value_lower, template_lower)
    \/ Contains(template_lower, product_value_lower)
    \/ WordOverlapAtLeast(Words(product_value_lower), Words(template_lower), 8)

\* the guard of the numeric loop
IsNumericValue(product_value_lower) ==
    IsDigit(RemoveChar(RemoveChar(product_value_lower, "."), "-"))

\* a value match by the exact rule alone
FindBestValueMatch_exact(product_value, template_value_mapping) ==
    LET product_value_lower == Strip(Lower(product_value))
        keys == 1..Len(template_value_mapping)
        key(k) == template_value_mapping[k][1]
        exact == { k \in keys : Strip(Lower(key(k))) = product_value_lower }
        first(S) == CHOOSE k \in S : \A m \in S : k <= m
    IN  IF product_value_lower = <<>> THEN None
        ELSE IF exact # {} THEN key(first(exact))
        ELSE None

\* a value match without the numeric loop
FindBestValueMatch_nonumeric(product_value, template_value_mapping) ==
    LET product_value_lower == Strip(Lower(product_value))
        keys == 1..Len(template_value_mapping)
        key(k) == template_value_mapping[k][1]
        exact == { k \in keys : Strip(Lower(key(k))) = product_value_lower }
        partial == { k \in keys :
                       ValuePartialMatch(product_value_lower, Strip(Lower(key(k)))) }
        first(S) == CHOOSE k \in S : \A m \in S : k <= m
    IN  IF product_value_lower = <<>> THEN None
        ELSE IF exact # {} THEN key(first(exact))
        ELSE IF partial # {} THEN key(first(partial))
        ELSE None

\* a value match that tries containment on every value before word overlap
FindBestValueMatch_rulewise(product_value, template_value_mapping) ==
    LET product_value_lower == Strip(Lower(product_value))
        keys == 1..Len(template_value_mapping)
        key(k) == template_value_mapping[k][1]
        exact == { k \in keys : Strip(Lower(key(k))) = product_value_lower }
        numeric == { k \in keys :
                       /\ IsNumericValue(product_value_lower)
                       /\ FirstNumber(Lower(key(k))) # <<>>
                       /\ FirstNumber(Lower(key(k))) = FirstNumber(product_value_lower) }
        contained == { k \in keys :
                       \/ Contains(product_value_lower, Strip(Lower(key(k))))
                       \/ Contains(Strip(Lower(key(k))), product_value_lower) }
        partial == { k \in keys :
                       ValuePartialMatch(product_value_lower, Strip(Lower(key(k)))) }
        first(S) == CHOOSE k \in S : \A m \in S : k <= m
    IN  IF product_value_lower = <<>> THEN None
        ELSE IF exact # {} THEN key(first(exact))
        ELSE IF numeric # {} THEN key(first(numeric))
        ELSE IF contained # {} THEN key(first(contained))
        ELSE IF partial # {} THEN key(first(partial))
        ELSE None

\* a value match that tries the partial rules before the numeric rule
FindBestValueMatch_partialfirst(product_value, template_value_mapping) ==
    LET product_value_lower == Strip(Lower(product_value))
        keys == 1..Len(template_value_mapping)
        key(k) == template_value_mapping[k][1]
        exact == { k \in keys : Strip(Lower(key(k))) = product_value_lower }
        numeric == { k \in keys :
                       /\ IsNumericValue(product_value_lower)
                       /\ FirstNumber(Lower(key(k))) # <<>>
                       /\ FirstNumber(Lower(key(k))) = FirstNumber(product_value_lower) }
        partial == { k \in keys :
                       ValuePartialMatch(product_value_lower, Strip(Lower(key(k)))) }
        first(S) == CHOOSE k \in S : \A m \in S : k <= m
    IN  IF product_value_lower = <<>> THEN None
        ELSE IF exact # {} THEN key(first(exact))
        ELSE IF partial # {} THEN key(first(partial))
        ELSE IF numeric # {} THEN key(first(numeric))
        ELSE None

\* the key of template_value_mapping chosen for product_value, or None
FindBestValueMatch(product_value, template_value_mapping) ==
    LET product_value_lower == Strip(Lower(product_value))
        keys == 1..Len(template_value_mapping)
        key(k) == template_value_mapping[k][1]
        exact == { k \in keys : Strip(Lower(key(k))) = product_value_lower }
        numeric == { k \in keys :
                       /\ IsNumericValue(product_value_lower)
                       /\ FirstNumber(Lower(key(k))) # <<>>
                       /\ FirstNumber(Lower(key(k))) = FirstNumber(product_value_lower) }
        partial == { k \in keys :
                       ValuePartialMatch(product_value_lower, Strip(Lower(key(k)))) }
        first(S) == CHOOSE k \in S : \A m \in S : k <= m
    IN  IF product_value_lower = <<>> THEN None
        ELSE IF exact # {} THEN key(first(exact))
        ELSE IF numeric # {} THEN key(first(numeric))
        ELSE IF partial # {} THEN key(first(partial))
        ELSE None

\* an axis read under its own key only
AxisProductKey_direct(attr_name, product_attributes) ==
    LET attr_name_normalized == Strip(Lower(attr_name))
    IN  IF HasKey(product_attributes, attr_name_normalized)
        THEN attr_name_normalized
        ELSE None

\* the product attribute key read for a template axis, or None
AxisProductKey(attr_name, product_attributes) ==
    LET attr_name_normalized == Strip(Lower(attr_name))
    IN  IF HasKey(product_attributes, attr_name_normalized)
        THEN attr_name_normalized
        ELSE IF /\ Contains(K_nicotine, attr_name_normalized)
                /\ HasKey(product_attributes, K_nicotine_mg)
        THEN K_nicotine_mg
        ELSE IF /\ Contains(K_size, attr_name_normalized)
                /\ HasKey(product_attributes, K_volume_ml)
        THEN K_volume_ml
        ELSE IF /\ Contains(K_resistance, attr_name_normalized)
                /\ HasKey(product_attributes, K_resistance_ohm)
        THEN K_resistance_ohm
        ELSE None

\* the value ids one template axis contributes: one id or none
AxisValueIds(attr_name, value_mapping, product_attributes) ==
    LET key == AxisProductKey(attr_name, product_attributes)
        product_value_str == Strip(Get(product_attributes, key))
        best_match == FindBestValueMatch(product_value_str, value_mapping)
    IN  IF key = None THEN <<>>
        ELSE IF HasKey(value_mapping, product_value_str)
        THEN <<Get(value_mapping, product_value_str)>>
        ELSE IF best_match # None /\ best_match # <<>>
        THEN <<Get(value_mapping, best_match)>>
        ELSE <<>>

\* a combination that is empty as soon as one axis does not resolve
RECURSIVE CombineAxes_strict(_, _)
CombineAxes_strict(template_values, product_attributes) ==
    IF template_values = <<>> THEN <<>>
    ELSE LET ids == AxisValueIds(template_values[1][1], template_values[1][2],
                                 product_attributes)
             rest == CombineAxes_strict(Tail(template_values), product_attributes)
         IN  IF ids = <<>> \/ (Len(template_values) > 1 /\ rest = <<>>)
             THEN <<>>
             ELSE ids \o rest

RECURSIVE CombineAxes(_, _)
CombineAxes(template_values, product_attributes) ==
    IF template_values = <<>> THEN <<>>
    ELSE AxisValueIds(template_values[1][1], template_values[1][2],
                      product_attributes)
         \o CombineAxes(Tail(template_values), product_attributes)

FindTemplateValueCombination(product, template) ==
    CombineAxes(template.attribute_values, product.attributes)

(***************************************************************************)
(* _attribute_values_match, _find_product_attribute_value and              *)
(* _find_existing_variant_id.  A variant id is [prefix, n]: the string     *)
(* prefix followed by the digits of n.                                     *)
(***************************************************************************)
ExportPrefix == "__export__.product_product_"

NoVariant == [prefix |-> "", n |-> 0]

\* the id returned when _attribute_values_match raised
Raised == [prefix |-> "ValueError", n |-> 0]

\* the Odoo attribute names and their internal variations, in order
AttributeMappings ==
    << <<K_flavor, <<K_flavor>> >>,
       <<K_nicotine_sp_level, <<K_nicotine_mg, K_nicotine, K_nicotine_level>> >>,
       <<K_color, <<K_color>> >>,
       <<K_resistance, <<K_resistance_ohm, K_resistance, K_ohm>> >>,
       <<K_size, <<K_volume_ml, K_volume, K_size>> >>,
       <<K_coil_sp_type, <<K_coil_type, K_coil_model, K_model>> >>,
       <<K_brand, <<K_brand>> >> >>

FindProductAttributeValue(stored_attr_name, product_attributes) ==
    LET stored_attr_lower == Strip(Lower(stored_attr_name))
        first(S) == CHOOSE k \in S : \A m \in S : k <= m
        mapped == { k \in 1..Len(AttributeMappings) :
                      AttributeMappings[k][1] = stored_attr_lower }
        variations == AttributeMappings[first(mapped)][2]
        present == { k \in 1..Len(variations) :
                       HasKey(product_attributes, variations[k]) }
        fuzzy == { k \in 1..Len(product_attributes) :
                     \/ Contains(stored_attr_lower, Lower(product_attributes[k][1]))
                     \/ Contains(Lower(product_attributes[k][1]), stored_attr_lower) }
    IN  IF HasKey(product_attributes, stored_attr_lower)
        THEN Get(product_attributes, stored_attr_lower)
        ELSE IF mapped # {} /\ present # {}
        THEN Get(product_attributes, variations[first(present)])
        ELSE IF fuzzy # {} THEN product_attributes[first(fuzzy)][2]
        ELSE None

\* the guard of the numeric comparison for one value
MgNumeric(value_lower) == IsDigit(RemoveMg(RemoveChar(value_lower, ".")))

\* float(s) succeeds, for s made of the characters the guard lets through
IsFloat(s) ==
    /\ \A i \in 1..Len(s) : s[i] \in Digits \cup {"."}
    /\ \E i \in 1..Len(s) : s[i] \in Digits
    /\ Cardinality({ i \in 1..Len(s) : s[i] = "." }) <= 1

RECURSIVE DropLeadingZeros(_)
DropLeadingZeros(s) ==
    IF s # <<>> /\ Head(s) = "0" THEN DropLeadingZeros(Tail(s)) ELSE s

RECURSIVE DropTrailingZeros(_)
DropTrailingZeros(s) ==
    IF s # <<>> /\ s[Len(s)] = "0"
    THEN DropTrailingZeros(SubSeq(s, 1, Len(s) - 1)) ELSE s

\* float(s) as <<integer digits, fraction digits>> without padding zeros
FloatOf(s) ==
    LET dots == { i \in 1..Len(s) : s[i] = "." }
        d == IF dots = {} THEN Len(s) + 1 ELSE CHOOSE i \in dots : TRUE
    IN  << DropLeadingZeros(SubSeq(s, 1, d - 1)),
           DropTrailingZeros(SubSeq(s, d + 1, Len(s))) >>

\* _attribute_values_match raises ValueError
AttributeValuesRaise(expected_value, stored_value) ==
    LET expected_lower == Strip(Lower(expected_value))
        stored_lower == Strip(Lower(stored_value))
    IN  /\ expected_value # <<>> /\ stored_value # <<>>
        /\ expected_lower # stored_lower
        /\ MgNumeric(expected_lower) /\ MgNumeric(stored_lower)
        /\ ~(IsFloat(RemoveMg(expected_lower)) /\ IsFloat(RemoveMg(stored_lower)))

AttributeValuesMatch(expected_value, stored_value) ==
    LET expected_lower == Strip(Lower(expected_value))
        stored_lower == Strip(Lower(stored_value))
    IN  /\ expected_value # <<>> /\ stored_value # <<>>
        /\ \/ expected_lower = stored_lower
           \/ /\ MgNumeric(expected_lower) /\ MgNumeric(stored_lower)
              /\ FloatOf(RemoveMg(expected_lower)) = FloatOf(RemoveMg(stored_lower))
           \/ Contains(expected_lower, stored_lower)
           \/ Contains(stored_lower, expected_lower)

\* the loop over stored_attribute_dict: "match", "mismatch" or "raise"
RECURSIVE StoredAttributesMatch(_, _)
StoredAttributesMatch(stored_attribute_dict, product_attributes) ==
    IF stored_attribute_dict = <<>> THEN "match"
    ELSE LET product_value ==
                 FindProductAttributeValue(stored_attribute_dict[1][1],
                                           product_attributes)
             stored_value == stored_attribute_dict[1][2]
         IN  IF product_value = None \/ product_value = <<>> THEN "mismatch"
             ELSE IF AttributeValuesRaise(product_value, stored_value)
             THEN "raise"
             ELSE IF ~AttributeValuesMatch(product_value, stored_value)
             THEN "mismatch"
             ELSE StoredAttributesMatch(Tail(stored_attribute_dict),
                                        product_attributes)

\* a loop over existing_variants.items() that takes ids of any form
RECURSIVE ScanVariants_anyid(_, _, _)
ScanVariants_anyid(variants, template_name_lower, product_attributes) ==
    IF variants = <<>> THEN NoVariant
    ELSE LET variant_info == variants[1]
             rest == ScanVariants_anyid(Tail(variants), template_name_lower,
                                        product_attributes)
             m == StoredAttributesMatch(variant_info.attribute_dict,
                                        product_attributes)
         IN  IF template_name_lower # Lower(variant_info.template_name)
             THEN rest
             ELSE IF variant_info.attribute_dict = <<>> THEN variant_info.id
             ELSE IF m = "match" THEN variant_info.id
             ELSE IF m = "raise" THEN Raised
             ELSE rest

\* the loop over existing_variants.items()
RECURSIVE ScanVariants(_, _, _)
ScanVariants(variants, template_name_lower, product_attributes) ==
    IF variants = <<>> THEN NoVariant
    ELSE LET variant_info == variants[1]
             rest == ScanVariants(Tail(variants), template_name_lower,
                                  product_attributes)
             m == StoredAttributesMatch(variant_info.attribute_dict,
                                        product_attributes)
         IN  IF variant_info.id.prefix # ExportPrefix THEN rest
             ELSE IF template_name_lower # Lower(variant_info.template_name)
             THEN rest
             ELSE IF variant_info.attribute_dict = <<>> THEN variant_info.id
             ELSE IF m = "match" THEN variant_info.id
             ELSE IF m = "raise" THEN Raised
             ELSE rest

FindExistingVariantId(product, template, variants) ==
    ScanVariants(variants, Lower(template.template_name), product.attributes)

(***************************************************************************)
(* variant_builder_tool: the pass over the merged product collection.      *)
(***************************************************************************)
NewStats(products, templates) ==
    [total_products |-> Len(products),
     variants_generated |-> 0,
     template_matches |-> 0,
     template_misses |-> 0,
     attribute_misses |-> 0,
     templates_processed |-> Len(templates)]

\* the loop head: the next product, or the code after the loop
LoopHead(i) == IF i <= Len(all_products) THEN "template_match" ELSE "report"

\* history: the log entry of the product at idx gets one more stage
Staged(stage, outcome) ==
    [log EXCEPT ![idx] = [stages |-> Append(@.stages, stage),
                          outcome |-> outcome,
                          before |-> @.before,
                          after |-> generation_stats']]

\* a start that keeps the variant records of the run before
Start_accumulating ==
    /\ pc = "start"
    /\ all_products' = CombineProductData(clear_products, llm_products)
    /\ variant_imports' = variant_imports
    /\ generation_stats' = NewStats(all_products', template_data)
    /\ missing_skus' = <<>>
    /\ idx' = 1
    /\ log' = [k \in 1..Len(all_products') |->
                 [stages |-> <<>>, outcome |-> "pending",
                  before |-> generation_stats', after |-> generation_stats']]
    /\ pc' = IF all_products' = <<>> THEN "report" ELSE "template_match"
    /\ UNCHANGED <<inputs, builders, result, matching_template, existing_variant_id,
                   template_value_ids, run, first_run>>

\* lines 35-66: load, combine, fresh accumulators
Start ==
    /\ pc = "start"
    /\ all_products' = CombineProductData(clear_products, llm_products)
    /\ variant_imports' = <<>>
    /\ generation_stats' = NewStats(all_products', template_data)
    /\ missing_skus' = <<>>
    /\ idx' = 1
    /\ log' = [k \in 1..Len(all_products') |->
                 [stages |-> <<>>, outcome |-> "pending",
                  before |-> generation_stats', after |-> generation_stats']]
    /\ pc' = IF all_products' = <<>> THEN "report" ELSE "template_match"
    /\ UNCHANGED <<inputs, builders, result, matching_template, existing_variant_id,
                   template_value_ids, run, first_run>>

\* lines 68-77
TemplateMatch ==
    /\ pc = "template_match"
    /\ matching_template' = FindMatchingTemplate(all_products[idx], template_data)
    /\ IF matching_template' = NoTemplate
       THEN /\ generation_stats' =
                   [generation_stats EXCEPT !.template_misses = @ + 1]
            /\ idx' = idx + 1
            /\ pc' = LoopHead(idx + 1)
            /\ log' = [Staged("TemplateMatch", "template_miss")
                          EXCEPT ![idx].before = generation_stats]
       ELSE /\ generation_stats' =
                   [generation_stats EXCEPT !.template_matches = @ + 1]
            /\ idx' = idx
            /\ pc' = "variant_identity"
            /\ log' = [Staged("TemplateMatch", "pending")
                          EXCEPT ![idx].before = generation_stats]
    /\ UNCHANGED <<inputs, builders, all_products, variant_imports, missing_skus, result,
                   existing_variant_id, template_value_ids, run, first_run>>

\* a variant identity stage that lets a product without a variant through
VariantIdentityResolve_optional ==
    /\ pc = "variant_identity"
    /\ existing_variant_id' =
           FindExistingVariantId(all_products[idx], matching_template,
                                 existing_variants)
    /\ UNCHANGED <<inputs, builders, all_products, variant_imports, missing_skus, result,
                   matching_template, template_value_ids, run, first_run,
                   generation_stats, idx>>
    /\ IF existing_variant_id' = Raised
       THEN /\ pc' = "error"
            /\ log' = Staged("VariantIdentityResolve", "error")
       ELSE /\ pc' = "value_resolve"
            /\ log' = Staged("VariantIdentityResolve", "pending")

\* lines 79-88
VariantIdentityResolve ==
    /\ pc = "variant_identity"
    /\ existing_variant_id' =
           FindExistingVariantId(all_products[idx], matching_template,
                                 existing_variants)
    /\ IF existing_variant_id' = Raised
       THEN /\ pc' = "error"
            /\ idx' = idx
            /\ generation_stats' = generation_stats
            /\ log' = Staged("VariantIdentityResolve", "error")
       ELSE IF existing_variant_id' = NoVariant
       THEN /\ generation_stats' =
                   [generation_stats EXCEPT !.attribute_misses = @ + 1]
            /\ idx' = idx + 1
            /\ pc' = LoopHead(idx + 1)
            /\ log' = Staged("VariantIdentityResolve", "attribute_miss")
       ELSE /\ generation_stats' = generation_stats
            /\ idx' = idx
            /\ pc' = "value_resolve"
            /\ log' = Staged("VariantIdentityResolve", "pending")
    /\ UNCHANGED <<inputs, builders, all_products, variant_imports, missing_skus, result,
                   matching_template, template_value_ids, run, first_run>>

\* a value stage that skips the product without counting the miss
ValueResolve_uncounted ==
    /\ pc = "value_resolve"
    /\ template_value_ids' =
           FindTemplateValueCombination(all_products[idx], matching_template)
    /\ generation_stats' = generation_stats
    /\ IF template_value_ids' = <<>>
       THEN /\ idx' = idx + 1
            /\ pc' = LoopHead(idx + 1)
            /\ log' = Staged("ValueResolve", "attribute_miss")
       ELSE /\ idx' = idx
            /\ pc' = "emit"
            /\ log' = Staged("ValueResolve", "pending")
    /\ UNCHANGED <<inputs, builders, all_products, variant_imports, missing_skus, result,
                   matching_template, existing_variant_id, run, first_run>>

\* lines 90-99
ValueResolve ==
    /\ pc = "value_resolve"
    /\ template_value_ids' =
           FindTemplateValueCombination(all_products[idx], matching_template)
    /\ IF template_value_ids' = <<>>
       THEN /\ generation_stats' =
                   [generation_stats EXCEPT !.attribute_misses = @ + 1]
            /\ idx' = idx + 1
            /\ pc' = LoopHead(idx + 1)
            /\ log' = Staged("ValueResolve", "attribute_miss")
       ELSE /\ generation_stats' = generation_stats
            /\ idx' = idx
            /\ pc' = "emit"
            /\ log' = Staged("ValueResolve", "pending")
    /\ UNCHANGED <<inputs, builders, all_products, variant_imports, missing_skus, result,
                   matching_template, existing_variant_id, run, first_run>>

\* lines 101-116; value_ids is the list that ','.join writes into the row
Emit ==
    /\ pc = "emit"
    /\ variant_imports' = Append(variant_imports,
           [id |-> existing_variant_id,
            name |-> matching_template.template_name,
            value_ids |-> template_value_ids,
            default_code |-> all_products[idx].sku,
            standard_price |-> all_products[idx].price])
    /\ generation_stats' =
           [generation_stats EXCEPT !.variants_generated = @ + 1]
    /\ idx' = idx + 1
    /\ pc' = LoopHead(idx + 1)
    /\ log' = Staged("Emit", "variant")
    /\ UNCHANGED <<inputs, builders, all_products, missing_skus, result, matching_template,
                   existing_variant_id, template_value_ids, run, first_run>>

\* product.get('product_name', '') or product.get('name', '')
ReportName(product) ==
    IF product.product_name # None /\ product.product_name # <<>>
    THEN product.product_name ELSE product.name

\* a report entry with the two reasons the wrong way round
MissEntry_swapped(product) ==
    [sku |-> product.sku,
     product_name |-> ReportName(product),
     source |-> product.source,
     reason |-> IF FindMatchingTemplate(product, template_data) = NoTemplate
                THEN "no_attribute_match" ELSE "no_template_match"]

\* the report entry of one product
MissEntry(product) ==
    [sku |-> product.sku,
     product_name |-> ReportName(product),
     source |-> product.source,
     reason |-> IF FindMatchingTemplate(product, template_data) = NoTemplate
                THEN "no_template_match" ELSE "no_attribute_match"]

\* a report condition that looks at the product alone
IsReported_productwise(product, generated_skus) ==
    /\ product.sku # <<>>
    /\ product.sku \notin template_skus

\* the condition under which a product gets a report entry
IsReported(product, generated_skus) ==
    /\ product.sku # <<>>
    /\ product.sku \notin generated_skus
    /\ product.sku \notin template_skus

RECURSIVE MissingSkus(_, _)
MissingSkus(products, generated_skus) ==
    IF products = <<>> THEN <<>>
    ELSE (IF IsReported(products[1], generated_skus)
          THEN <<MissEntry(products[1])>> ELSE <<>>)
         \o MissingSkus(Tail(products), generated_skus)

\* lines 138-167
Report ==
    /\ pc = "report"
    /\ missing_skus' = MissingSkus(all_products,
           { variant_imports[k].default_code : k \in 1..Len(variant_imports) })
    /\ pc' = "return"
    /\ UNCHANGED <<inputs, builders, all_products, generation_stats, variant_imports,
                   result, idx, matching_template, existing_variant_id,
                   template_value_ids, log, run, first_run>>

NoResult == [status |-> "none"]

\* lines 178-190; the generation rate divides by len(all_products)
Return ==
    /\ pc = "return"
    /\ IF Len(all_products) = 0
       THEN /\ pc' = "error"
            /\ result' = result
       ELSE /\ pc' = "done"
            /\ result' = [status |-> "success",
                          total_products_processed |-> Len(all_products),
                          variants_generated |-> generation_stats.variants_generated,
                          missing_skus_count |-> Len(missing_skus),
                          generation_stats |-> generation_stats]
    /\ UNCHANGED <<inputs, builders, all_products, generation_stats, variant_imports,
                   missing_skus, idx, matching_template, existing_variant_id,
                   template_value_ids, log, run, first_run>>

(***************************************************************************)
(* A second run of the tool over the same files.                           *)
(***************************************************************************)
NoRun == [pc |-> "none"]

Outputs ==
    [pc |-> pc, variant_imports |-> variant_imports,
     missing_skus |-> missing_skus, generation_stats |-> generation_stats,
     result |-> result]

\* the tool is called again: only the files carry over
Rerun ==
    /\ pc \in {"done", "error"}
    /\ run < MaxRuns
    /\ run' = run + 1
    /\ first_run' = IF run = 1 THEN Outputs ELSE first_run
    /\ pc' = "start"
    /\ UNCHANGED <<inputs, builders, all_products, generation_stats, variant_imports,
                   missing_skus, result, idx, matching_template,
                   existing_variant_id, template_value_ids, log>>

(***************************************************************************)
(* Inputs of the pass.                                                     *)
(***************************************************************************)
S_AJ == <<"A", " ", "J">>
S_AQ == <<"A", " ", "Q">>
S_AJx == <<"A", " ", "J", "x">>
S_W == <<"W">>
S_r1 == <<"r", "1">>
S_S1 == <<"S", "1">>

S_S2 == <<"S", "2">>
S_Mango == <<"M", "a", "n", "g", "o">>
S_Grape == <<"G", "r", "a", "p", "e">>
S_3 == <<"3">>
S_3mg == <<"3", "m", "g">>
S_3MG == <<"3", "M", "G">>
S_6MG == <<"6", "M", "G">>
S_1_2_3 == <<"1", ".", "2", ".", "3">>

\* pattern records without their index key
PatternShapes ==
    { [name |-> S_r1, sku |-> S_S1, price |-> 5, product_name |-> S_AJ,
       flavor |-> S_Mango, regex_result |-> << <<K_nicotine_mg, S_3>> >>],
      [name |-> S_AJ, sku |-> S_S1, price |-> 7, product_name |-> <<>>,
       flavor |-> S_Grape, nicotine_mg |-> None],
      [name |-> S_r1, sku |-> S_S2, price |-> 0, product_name |-> S_AQ] }

\* the pattern record of a shape at 0-based position i; the shape without
\* attributes also lacks the index key
PatternRecord(shape, i) ==
    IF "flavor" \in DOMAIN shape
    THEN [f \in DOMAIN shape \cup {"index"} |->
             IF f = "index" THEN i ELSE shape[f]]
    ELSE shape

\* semantic records
LlmRecords ==
    { [index |-> 0, product_name |-> S_AJ, flavor |-> S_Mango,
       attributes |-> << <<K_nicotine_mg, S_3mg>>, <<K_brand, S_W>> >>],
      [index |-> 1, product_name |-> S_AJ, brand |-> S_W,
       price |-> 7, name |-> S_r1, nicotine_mg |-> S_3, flavor |-> None] }

Templates ==
    { [template_id |-> "t1", template_name |-> S_AJ,
       attribute_values |->
         << <<K_flavor, << <<S_Mango, "val_1">> >> >>,
            <<K_nicotine_sp_level, << <<S_3MG, "val_2">>, <<S_6MG, "val_3">> >> >> >>],
      [template_id |-> "t2", template_name |-> S_AJx,
       attribute_values |-> << <<K_flavor, << <<S_Grape, "val_4">> >> >> >>] }

Variants ==
    { [id |-> [prefix |-> ExportPrefix, n |-> 1], template_name |-> S_AJ,
       attribute_dict |-> << <<K_flavor, S_Mango>>, <<K_nicotine_sp_level, S_3mg>> >>],
      [id |-> [prefix |-> ExportPrefix, n |-> 2], template_name |-> S_AJx,
       attribute_dict |-> <<>>],
      [id |-> [prefix |-> ExportPrefix, n |-> 3], template_name |-> S_AJx,
       attribute_dict |-> << <<K_nicotine_sp_level, S_1_2_3>> >>] }

\* the sequences of at most n elements of S
SeqsUpTo(S, n) == UNION { [1..k -> S] : k \in 0..n }

\* the sequences of at most n distinct elements of S (a dict's items)
DistinctSeqsUpTo(S, n) ==
    { s \in SeqsUpTo(S, n) : \A i, j \in 1..Len(s) : i # j => s[i] # s[j] }

NewReuseStats ==
    [existing_attributes |-> 0, new_attributes |-> 0,
     existing_values |-> 0, new_values |-> 0]

\* the variant builder pass before its first step
IdlePass ==
    /\ all_products = <<>>
    /\ generation_stats = NewStats(<<>>, <<>>)
    /\ variant_imports = <<>>
    /\ missing_skus = <<>>
    /\ result = NoResult
    /\ idx = 1
    /\ matching_template = NoTemplate
    /\ existing_variant_id = NoVariant
    /\ template_value_ids = <<>>
    /\ log = <<>>
    /\ run = 1
    /\ first_run = NoRun

\* the attribute builder before its first step
IdleAttributes ==
    /\ existing_attributes = <<>>
    /\ attribute_data = <<>>
    /\ existing_attr_csv_data = <<>>
    /\ new_attr_csv_data = <<>>
    /\ reuse_stats = NewReuseStats

\* no export is read
NoFiles ==
    /\ odoo_product_template_file = <<>>
    /\ odoo_product_variant_csv = <<>>

\* the batch loop before its first step
IdleBatching ==
    /\ processed_products = <<>>
    /\ batches = <<>>
    /\ all_parsed_results = <<>>
    /\ batch_num = 1
    /\ batch_log = <<>>

NoBatching ==
    /\ unclear_products = <<>>
    /\ IdleBatching
    /\ tb_templates = <<>>
    /\ existing_template_updates = <<>>
    /\ new_templates = <<>>
    /\ template_summary = <<>>
    /\ hardware_attributes = <<>>
    /\ hardware_templates = <<>>
    /\ hardware_variants = <<>>

Idle ==
    /\ IdlePass
    /\ df = <<>>
    /\ IdleAttributes
    /\ NoFiles
    /\ NoBatching

Init ==
    /\ \E shapes \in SeqsUpTo(PatternShapes, MaxProducts) :
           clear_products = [i \in 1..Len(shapes) |-> PatternRecord(shapes[i], i - 1)]
    /\ llm_products \in SeqsUpTo(LlmRecords, MaxLlm)
    /\ template_data \in DistinctSeqsUpTo(Templates, MaxTemplates)
    /\ existing_variants \in DistinctSeqsUpTo(Variants, MaxVariants)
    /\ template_skus \in {{}, {S_S1}}
    /\ pc = "start"
    /\ Idle

Next ==
    \/ Start
    \/ TemplateMatch
    \/ VariantIdentityResolve
    \/ ValueResolve
    \/ Emit
    \/ Report
    \/ Return

Spec == Init /\ [][Next]_vars

NextRerun == Next \/ Rerun

SpecRerun == Init /\ [][NextRerun]_vars

(***************************************************************************)
(* _find_matching_template applied to every short name.                    *)
(***************************************************************************)
MatchAlphabet == {"a", "A", " "}

\* the strings of at most n characters of the alphabet
StringsUpTo(alphabet, n) == UNION { [1..k -> alphabet] : k \in 0..n }

TemplateIds == <<"t1", "t2", "t3", "t4">>

\* the template dict whose k-th item has the k-th name and no axes
TemplatesNamed(names) ==
    [k \in 1..Len(names) |->
        [template_id |-> TemplateIds[k], template_name |-> names[k],
         attribute_values |-> <<>>]]

InitMatch ==
    /\ clear_products = <<>>
    /\ llm_products = <<>>
    /\ existing_variants = <<>>
    /\ template_skus = {}
    /\ \E names \in SeqsUpTo(StringsUpTo(MatchAlphabet, MaxNameLen - 1) \ {<<>>},
                             MaxMatchTemplates) :
           template_data = TemplatesNamed(names)
    /\ Idle
    /\ pc = "match_call"

\* a call of _find_matching_template with any display name and raw name
MatchCall ==
    /\ pc = "match_call"
    /\ \E display \in StringsUpTo(MatchAlphabet, MaxNameLen) \cup {None},
          raw \in {<<>>, <<"a">>} :
         /\ all_products' = << [index |-> 0, name |-> raw, sku |-> <<>>,
                                price |-> 0, product_name |-> display,
                                brand |-> <<>>, source |-> "regex",
                                attributes |-> <<>>] >>
         /\ matching_template' =
                FindMatchingTemplate(all_products'[1], template_data)
    /\ pc' = "match_return"
    /\ UNCHANGED <<inputs, builders, generation_stats, variant_imports, missing_skus,
                   result, idx, existing_variant_id, template_value_ids, log,
                   run, first_run>>

SpecMatch == InitMatch /\ [][MatchCall]_vars

(***************************************************************************)
(* _find_matching_template applied to names of several words.              *)
(***************************************************************************)
WordNames ==
    { <<"a", " ", "b">>, <<"b", " ", "a">>, <<"A", " ", "b">>, <<"a">>,
      <<"b", " ", "c">>, <<"c">> }

InitWords ==
    /\ clear_products = <<>>
    /\ llm_products = <<>>
    /\ existing_variants = <<>>
    /\ template_skus = {}
    /\ \E names \in SeqsUpTo(WordNames, MaxMatchTemplates) :
           template_data = TemplatesNamed(names)
    /\ Idle
    /\ pc = "match_call"

\* a call of _find_matching_template with a display name of several words
MatchWordsCall ==
    /\ pc = "match_call"
    /\ \E display \in WordNames \cup {None}, raw \in {<<>>, <<"a">>} :
         /\ all_products' = << [index |-> 0, name |-> raw, sku |-> <<>>,
                                price |-> 0, product_name |-> display,
                                brand |-> <<>>, source |-> "regex",
                                attributes |-> <<>>] >>
         /\ matching_template' =
                FindMatchingTemplate(all_products'[1], template_data)
    /\ pc' = "match_return"
    /\ UNCHANGED <<inputs, builders, generation_stats, variant_imports, missing_skus,
                   result, idx, existing_variant_id, template_value_ids, log,
                   run, first_run>>

SpecWords == InitWords /\ [][MatchWordsCall]_vars

(***************************************************************************)
(* _find_template_value_combination applied to one-attribute products.     *)
(***************************************************************************)
ProductValues ==
    { <<"3">>, <<"3", "m", "g">>, <<"3", "-", "5">>, <<"6">>, <<"M", "a", "n", "g", "o">>, <<"m", "a", "n">>, <<"I", "c", "e", " ", "M", "a", "n", "g", "o">>, <<"G", "r", "a", "p", "e">>, <<>>, <<" ", "3", " ">> }

\* the value names an axis may carry in the template export
AxisVocabulary(axis) ==
    IF axis = K_flavor THEN { <<"M", "a", "n", "g", "o">>, <<"M", "a", "n", "g", "o", " ", "I", "c", "e">>, <<>> }
    ELSE { <<"3", "M", "G">>, <<"3", " ", "M", "G">>, <<"3", "0", "M", "G">>, <<>> }

ProductKeys == {K_flavor, K_nicotine_mg, K_nicotine}

AxisNames == {K_flavor, K_nicotine_sp_level}

ValueIds == << <<"val_1", "val_2", "val_3">>, <<"val_4", "val_5", "val_6">>,
               <<"val_7", "val_8", "val_9">> >>

\* the attribute_values dict with the given axis names and value names
AxesNamed(axes, vocabs) ==
    [a \in 1..Len(axes) |->
        <<axes[a], [v \in 1..Len(vocabs[a]) |-> <<vocabs[a][v], ValueIds[a][v]>>]>>]

InitValue ==
    /\ clear_products = <<>>
    /\ llm_products = <<>>
    /\ existing_variants = <<>>
    /\ template_skus = {}
    /\ \E axes \in DistinctSeqsUpTo(AxisNames, MaxAxes) :
       \E vocabs \in { f \in [1..Len(axes) -> DistinctSeqsUpTo(
                              AxisVocabulary(K_flavor) \cup
                              AxisVocabulary(K_nicotine_sp_level), MaxVocab)] :
                          \A a \in 1..Len(axes) : \A v \in 1..Len(f[a]) :
                              f[a][v] \in AxisVocabulary(axes[a]) } :
           template_data =
               << [template_id |-> "t1", template_name |-> S_AJ,
                   attribute_values |-> AxesNamed(axes, vocabs)] >>
    /\ Idle
    /\ pc = "value_call"

\* a call of _find_template_value_combination; log keeps what each axis added
ValueCall ==
    /\ pc = "value_call"
    /\ \E key \in ProductKeys, value \in ProductValues :
           all_products' = << [index |-> 0, name |-> <<>>, sku |-> <<>>,
                               price |-> 0, product_name |-> S_AJ,
                               brand |-> <<>>, source |-> "llm",
                               attributes |-> << <<key, value>> >>] >>
    /\ matching_template' = template_data[1]
    /\ template_value_ids' =
           FindTemplateValueCombination(all_products'[1], matching_template')
    /\ log' = [a \in 1..Len(matching_template'.attribute_values) |->
                 AxisValueIds(matching_template'.attribute_values[a][1],
                              matching_template'.attribute_values[a][2],
                              all_products'[1].attributes)]
    /\ pc' = "value_return"
    /\ UNCHANGED <<inputs, builders, generation_stats, variant_imports, missing_skus,
                   result, idx, existing_variant_id, run, first_run>>

SpecValue == InitValue /\ [][ValueCall]_vars

(***************************************************************************)
(* _find_template_value_combination applied to templates with the axes of  *)
(* the alias branches and products with up to MaxAttrs attributes.         *)
(***************************************************************************)
S_6 == <<"6">>

S_30 == <<"3", "0">>

S_30ML == <<"3", "0", "M", "L">>

S_0_5 == <<"0", ".", "5">>

\* the axes of the template export, lower-cased and stripped by the parser,
\* each with its value names and value ids
AliasAxes ==
    { <<K_flavor, << <<S_Mango, "val_1">> >> >>,
      <<K_nicotine_sp_level, << <<S_6MG, "val_2">>, <<S_3MG, "val_6">> >> >>,
      <<K_size, << <<S_30ML, "val_3">> >> >>,
      <<K_volume, << <<S_30ML, "val_4">> >> >>,
      <<K_resistance, << <<S_0_5, "val_5">> >> >> }

\* the attributes a product may carry
AliasAttributes ==
    { <<K_flavor, S_Mango>>, <<K_nicotine_mg, S_6>>, <<K_volume_ml, S_30>>,
      <<K_resistance_ohm, S_0_5>>, <<K_nicotine_sp_level, S_3mg>>,
      <<K_volume, S_30>> }

InitAxis ==
    /\ clear_products = <<>>
    /\ llm_products = <<>>
    /\ existing_variants = <<>>
    /\ template_skus = {}
    /\ \E axes \in DistinctSeqsUpTo(AliasAxes, MaxAxes) :
           template_data =
               << [template_id |-> "t1", template_name |-> S_AJ,
                   attribute_values |-> axes] >>
    /\ Idle
    /\ pc = "axis_call"

\* a call of _find_template_value_combination; log keeps what each axis added
AxisCall ==
    /\ pc = "axis_call"
    /\ \E attributes \in DistinctSeqsUpTo(AliasAttributes, MaxAttrs) :
           all_products' = << [index |-> 0, name |-> <<>>, sku |-> <<>>,
                               price |-> 0, product_name |-> S_AJ,
                               brand |-> <<>>, source |-> "llm",
                               attributes |-> attributes] >>
    /\ matching_template' = template_data[1]
    /\ template_value_ids' =
           FindTemplateValueCombination(all_products'[1], matching_template')
    /\ log' = [a \in 1..Len(matching_template'.attribute_values) |->
                 AxisValueIds(matching_template'.attribute_values[a][1],
                              matching_template'.attribute_values[a][2],
                              all_products'[1].attributes)]
    /\ pc' = "axis_return"
    /\ UNCHANGED <<inputs, builders, generation_stats, variant_imports, missing_skus,
                   result, idx, existing_variant_id, run, first_run>>

SpecAxis == InitAxis /\ [][AxisCall]_vars

(***************************************************************************)
(* _find_existing_variant_id applied to variant exports of up to MaxStored *)
(* variants and products with up to MaxAttrs attributes.                   *)
(***************************************************************************)
S_3_0 == <<"3", ".", "0">>

\* an id of the export that is not a '__export__.product_product_' id
ModulePrefix == "product.product_variant_"

VariantPrefixes == {ExportPrefix, ModulePrefix}

VariantTemplateNames == {S_AJ, S_AJx}

Signatures ==
    { <<>>,
      << <<K_nicotine_sp_level, S_3mg>> >>,
      << <<K_flavor, S_Mango>>, <<K_nicotine_sp_level, S_3mg>> >>,
      << <<K_nicotine_sp_level, S_1_2_3>> >> }

StoredKinds ==
    [prefix : VariantPrefixes, template_name : VariantTemplateNames,
     attribute_dict : Signatures]

\* the k-th item of the variant dict gets the k-th id of its prefix
VariantsOfKinds(kinds) ==
    [k \in 1..Len(kinds) |->
        [id |-> [prefix |-> kinds[k].prefix, n |-> k],
         template_name |-> kinds[k].template_name,
         attribute_dict |-> kinds[k].attribute_dict]]

StoredAttributes ==
    { <<K_flavor, S_Mango>>, <<K_flavor, <<>> >>, <<K_flavor, <<" ">> >>,
      <<K_nicotine_mg, S_3_0>>, <<K_nicotine_mg, S_6>>, <<K_brand, S_W>> }

\* the dicts of at most n items of S: no key twice
DictsUpTo(S, n) ==
    { d \in SeqsUpTo(S, n) : \A i, j \in 1..Len(d) : i # j => d[i][1] # d[j][1] }

InitVariant ==
    /\ clear_products = <<>>
    /\ llm_products = <<>>
    /\ template_data = << [template_id |-> "t1", template_name |-> S_AJ,
                           attribute_values |-> <<>>] >>
    /\ template_skus = {}
    /\ \E kinds \in SeqsUpTo(StoredKinds, MaxStored) :
           existing_variants = VariantsOfKinds(kinds)
    /\ Idle
    /\ pc = "variant_call"

\* a call of _find_existing_variant_id
VariantCall ==
    /\ pc = "variant_call"
    /\ \E attributes \in DictsUpTo(StoredAttributes, MaxAttrs) :
           all_products' = << [index |-> 0, name |-> <<>>, sku |-> <<>>,
                               price |-> 0, product_name |-> S_AJ,
                               brand |-> <<>>, source |-> "llm",
                               attributes |-> attributes] >>
    /\ matching_template' = template_data[1]
    /\ existing_variant_id' =
           FindExistingVariantId(all_products'[1], matching_template',
                                 existing_variants)
    /\ pc' = "variant_return"
    /\ UNCHANGED <<inputs, builders, generation_stats, variant_imports, missing_skus,
                   result, idx, template_value_ids, log, run, first_run>>

SpecVariant == InitVariant /\ [][VariantCall]_vars

(***************************************************************************)
(* attribute_builder.py: the vocabulary loader, the collection of the      *)
(* observed attributes and the rows of the two attribute files.            *)
(***************************************************************************)
\* the characters of the model in the order of their code points
CodePoints ==
    <<" ", "(", ")", "-", ".", "0", "1", "2", "3", "4", "5", "6", "7", "8",
      "9", ":", "A", "B", "C", "D", "E", "F", "G", "H", "I", "J", "K", "L",
      "M", "N", "O", "P", "Q", "R", "S", "T", "U", "V", "W", "X", "Y", "Z",
      "_", "a", "b", "c", "d", "e", "f", "g", "h", "i", "j", "k", "l", "m",
      "n", "o", "p", "q", "r", "s", "t", "u", "v", "w", "x", "y", "z", "|">>

CharRank(c) == CHOOSE i \in 1..Len(CodePoints) : CodePoints[i] = c

\* a < b, for strings
RECURSIVE StrLess(_, _)
StrLess(a, b) ==
    IF b = <<>> THEN FALSE
    ELSE IF a = <<>> THEN TRUE
    ELSE IF Head(a) = Head(b) THEN StrLess(Tail(a), Tail(b))
    ELSE CharRank(Head(a)) < CharRank(Head(b))

\* sorted(values), for a set of strings
RECURSIVE SortedValues(_)
SortedValues(values) ==
    IF values = {} THEN <<>>
    ELSE LET least == CHOOSE v \in values :
                          \A w \in values \ {v} : StrLess(v, w)
         IN  <<least>> \o SortedValues(values \ {least})

UpperChar(c) ==
    CASE c = "a" -> "A" [] c = "b" -> "B" [] c = "c" -> "C" [] c = "d" -> "D"
      [] c = "e" -> "E" [] c = "f" -> "F" [] c = "g" -> "G" [] c = "h" -> "H"
      [] c = "i" -> "I" [] c = "j" -> "J" [] c = "k" -> "K" [] c = "l" -> "L"
      [] c = "m" -> "M" [] c = "n" -> "N" [] c = "o" -> "O" [] c = "p" -> "P"
      [] c = "q" -> "Q" [] c = "r" -> "R" [] c = "s" -> "S" [] c = "t" -> "T"
      [] c = "u" -> "U" [] c = "v" -> "V" [] c = "w" -> "W" [] c = "x" -> "X"
      [] c = "y" -> "Y" [] c = "z" -> "Z" [] OTHER -> c

\* str.capitalize()
Capitalize(w) ==
    IF w = <<>> THEN <<>> ELSE <<UpperChar(Head(w))>> \o Lower(Tail(w))

\* s.split(): the words of s in order
RECURSIVE SplitWords(_)
SplitWords(s) ==
    LET t == LStrip(s)
        ends == { i \in 1..Len(t) : t[i] \in Whitespace }
        e == IF ends = {} THEN Len(t) + 1
             ELSE CHOOSE i \in ends : \A k \in ends : i <= k
    IN  IF t = <<>> THEN <<>>
        ELSE <<SubSeq(t, 1, e - 1)>> \o SplitWords(SubSeq(t, e, Len(t)))

\* ' '.join(words)
RECURSIVE JoinWords(_)
JoinWords(words) ==
    IF words = <<>> THEN <<>>
    ELSE IF Len(words) = 1 THEN words[1]
    ELSE words[1] \o <<" ">> \o JoinWords(Tail(words))

FormatWord(word) ==
    IF Lower(word) = <<"m", "g">> THEN <<"(", "m", "g", ")">>
    ELSE IF Lower(word) = <<"m", "l">> THEN <<"(", "m", "L", ")">>
    ELSE IF Lower(word) = <<"o", "h", "m">> THEN <<"(", "OMEGA", ")">>
    ELSE Capitalize(word)

\* _format_attribute_name
FormatAttributeName(attr_name) ==
    LET words == SplitWords([i \in 1..Len(attr_name) |->
                                IF attr_name[i] = "_" THEN " " ELSE attr_name[i]])
    IN  JoinWords([k \in 1..Len(words) |-> FormatWord(words[k])])

K_regex_result == <<"r", "e", "g", "e", "x", "_", "r", "e", "s", "u", "l", "t">>

\* standard_attrs: the field of the record and its name as a string
StandardAttrs ==
    << <<"flavor", K_flavor>>, <<"nicotine_mg", K_nicotine_mg>>,
       <<"volume_ml", K_volume_ml>>, <<"brand", K_brand>>,
       <<"color", K_color>>, <<"resistance", K_resistance>>,
       <<"model", K_model>> >>

\* the fields of the records that are neither excluded nor standard; their
\* value is a dict
DynamicDictAttrs == << <<"regex_result", K_regex_result>> >>

NewAttributeInfo == [values |-> {}, count |-> 0, sources |-> {}]

\* _add_attribute_value for a dict value: the entry is created, nothing added
AddDictValue(data, attr_name) ==
    IF HasKey(data, attr_name) THEN data
    ELSE Append(data, <<attr_name, NewAttributeInfo>>)

\* _add_attribute_value for a string value
AddAttributeValue(data, attr_name, value, source) ==
    LET created == AddDictValue(data, attr_name)
        info == Get(created, attr_name)
    IN  IF Strip(value) = <<>> THEN created
        ELSE Put(created, attr_name,
                 [values |-> info.values \cup {Strip(value)},
                  count |-> info.count + 1,
                  sources |-> info.sources \cup {source}])

RECURSIVE AddStandard(_, _, _, _)
AddStandard(data, product, source, n) ==
    IF n > Len(StandardAttrs) THEN data
    ELSE LET f == StandardAttrs[n][1]
         IN  AddStandard(
                 IF f \in DOMAIN product /\ product[f] # None
                 THEN AddAttributeValue(data, StandardAttrs[n][2], product[f], source)
                 ELSE data,
                 product, source, n + 1)

RECURSIVE AddNested(_, _, _)
AddNested(data, items, source) ==
    IF items = <<>> THEN data
    ELSE AddNested(
             IF items[1][2] # None
             THEN AddAttributeValue(data, items[1][1], items[1][2], source)
             ELSE data,
             Tail(items), source)

RECURSIVE AddDynamic(_, _, _)
AddDynamic(data, product, n) ==
    IF n > Len(DynamicDictAttrs) THEN data
    ELSE AddDynamic(
             IF DynamicDictAttrs[n][1] \in DOMAIN product
             THEN AddDictValue(data, DynamicDictAttrs[n][2])
             ELSE data,
             product, n + 1)

\* _collect_product_attributes
CollectProductAttributes(product, data, source) ==
    LET standard == AddStandard(data, product, source, 1)
        nested == IF "attributes" \in DOMAIN product
                  THEN AddNested(standard, product.attributes, source)
                  ELSE standard
    IN  AddDynamic(nested, product, 1)

RECURSIVE CollectAll(_, _, _)
CollectAll(products, data, source) ==
    IF products = <<>> THEN data
    ELSE CollectAll(Tail(products),
                    CollectProductAttributes(products[1], data, source), source)

\* attr_variations of _find_existing_attribute, in order
AttrVariations ==
    << <<<<"n", "i", "c", "o", "t", "i", "n", "e", " ", "l", "e", "v", "e", "l">>,
         {<<"n", "i", "c", "o", "t", "i", "n", "e">>,
          <<"n", "i", "c", "o", "t", "i", "n", "e", "_", "m", "g">>,
          <<"n", "i", "c", "o", "t", "i", "n", "e", " ", "s", "t", "r", "e", "n", "g", "t", "h">>,
          <<"n", "i", "c", "o", "t", "i", "n", "e", "_", "m", "g", "_", "r", "a", "n", "g", "e">>,
          <<"n", "i", "c", "o", "t", "i", "n", "e", "_", "m", "g", "_", "m", "i", "n">>,
          <<"n", "i", "c", "o", "t", "i", "n", "e", "_", "m", "g", "_", "m", "a", "x">>}>>,
       <<<<"f", "l", "a", "v", "o", "r">>,
         {<<"f", "l", "a", "v", "o", "r">>}>>,
       <<<<"b", "r", "a", "n", "d">>,
         {<<"b", "r", "a", "n", "d">>}>>,
       <<<<"c", "o", "l", "o", "r">>,
         {<<"c", "o", "l", "o", "r">>}>>,
       <<<<"r", "e", "s", "i", "s", "t", "a", "n", "c", "e">>,
         {<<"r", "e", "s", "i", "s", "t", "a", "n", "c", "e">>,
          <<"r", "e", "s", "i", "s", "t", "a", "n", "c", "e", "_", "o", "h", "m">>,
          <<"o", "h", "m">>}>>,
       <<<<"s", "i", "z", "e">>,
         {<<"v", "o", "l", "u", "m", "e">>,
          <<"v", "o", "l", "u", "m", "e", "_", "m", "l">>,
          <<"c", "a", "p", "a", "c", "i", "t", "y">>}>>,
       <<<<"c", "o", "i", "l", " ", "t", "y", "p", "e">>,
         {<<"c", "o", "i", "l", "_", "t", "y", "p", "e">>,
          <<"c", "o", "i", "l", " ", "m", "o", "d", "e", "l">>,
          <<"c", "o", "i", "l", "_", "m", "o", "d", "e", "l">>}>> >>

\* a cell that holds a number where the loader calls a string method
NotAString == <<"<float>">>

\* the export could not be read at all
Unreadable == << [unreadable |-> TRUE] >>

IsUnreadable(rows) == rows # <<>> /\ "unreadable" \in DOMAIN rows[1]

\* the loop of _load_existing_attributes over the rows from position i on;
\* an exception ends the loop and keeps what was loaded
RECURSIVE LoadAttributeRows(_, _, _, _)
LoadAttributeRows(rows, i, existing, current_attr) ==
    IF i > Len(rows) THEN existing
    ELSE LET row == rows[i]
             attr_id == row.id
             attr_name == IF row.name # None /\ Strip(row.name) # <<>>
                          THEN row.name ELSE None
             started == attr_id # None /\ attr_name # None
             current == IF started THEN attr_name ELSE current_attr
             defined ==
                 IF started /\ ~HasKey(existing, attr_name)
                 THEN Append(existing,
                             <<attr_name, [id |-> attr_id, name |-> attr_name,
                                            values |-> <<>>]>>)
                 ELSE existing
             info == Get(defined, current)
         IN  IF row.id = NotAString \/ row.name = NotAString THEN existing
             ELSE IF current # None /\ row.value_id # None
                     /\ row.value_name # None /\ row.value_name # <<>>
             THEN LoadAttributeRows(rows, i + 1,
                      Put(defined, current,
                          [info EXCEPT !.values =
                               Put(@, row.value_name, row.value_id)]),
                      current)
             ELSE LoadAttributeRows(rows, i + 1, defined, current)

\* _load_existing_attributes
LoadExistingAttributes(rows) ==
    IF IsUnreadable(rows) THEN <<>>
    ELSE LoadAttributeRows(rows, 1, <<>>, None)

\* the None of _find_existing_attribute
NoAttribute == [id |-> None, name |-> None, values |-> <<>>]

\* _find_existing_attribute: the attribute info, or NoAttribute
\* a lookup that consults the variations for the product's key only
FindExistingAttribute_onedirection(attr_name, existing) ==
    LET attr_name_lower == Lower(attr_name)
        first(S) == CHOOSE k \in S : \A m \in S : k <= m
        same == { k \in 1..Len(existing) :
                    Lower(existing[k][1]) = attr_name_lower }
        varied == { k \in 1..Len(existing) :
                      \E n \in 1..Len(AttrVariations) :
                          /\ Lower(existing[k][1]) = AttrVariations[n][1]
                          /\ attr_name_lower \in AttrVariations[n][2] }
    IN  IF same # {} THEN existing[first(same)][2]
        ELSE IF varied # {} THEN existing[first(varied)][2]
        ELSE NoAttribute

FindExistingAttribute(attr_name, existing) ==
    LET attr_name_lower == Lower(attr_name)
        first(S) == CHOOSE k \in S : \A m \in S : k <= m
        same == { k \in 1..Len(existing) :
                    Lower(existing[k][1]) = attr_name_lower }
        varied == { k \in 1..Len(existing) :
                      \E n \in 1..Len(AttrVariations) :
                          \/ /\ Lower(existing[k][1]) = AttrVariations[n][1]
                             /\ attr_name_lower \in AttrVariations[n][2]
                          \/ /\ attr_name_lower = AttrVariations[n][1]
                             /\ Lower(existing[k][1]) \in AttrVariations[n][2] }
    IN  IF same # {} THEN existing[first(same)][2]
        ELSE IF varied # {} THEN existing[first(varied)][2]
        ELSE NoAttribute

\* _find_existing_value without the lower-casing and the trimming
FindExistingValue_verbatim(value_name, existing_values) ==
    LET found == { k \in 1..Len(existing_values) :
                     existing_values[k][1] = value_name }
    IN  IF found = {} THEN None
        ELSE existing_values[CHOOSE k \in found : \A m \in found : k <= m][2]

\* _find_existing_value: the value id, or None
FindExistingValue(value_name, existing_values) ==
    LET found == { k \in 1..Len(existing_values) :
                     Strip(Lower(existing_values[k][1])) = Strip(Lower(value_name)) }
    IN  IF found = {} THEN None
        ELSE existing_values[CHOOSE k \in found : \A m \in found : k <= m][2]

\* float(value) succeeds for a value the guard of _determine_display_type
\* lets through
IsSignedFloat(value) ==
    \/ IsFloat(value)
    \/ value # <<>> /\ Head(value) = "-" /\ IsFloat(Tail(value))

\* _determine_display_type
DetermineDisplayType(values) ==
    LET numeric == { v \in values :
                       /\ IsDigit(RemoveChar(RemoveChar(v, "."), "-"))
                       /\ IsSignedFloat(v) }
    IN  IF 10 * Cardinality(numeric) >= 8 * Cardinality(values) THEN "radio"
        ELSE IF Cardinality(values) > 10 THEN "select"
        ELSE "radio"

\* the rows of one existing attribute: id and name on the first row only
ExistingAttrRows(info, new_values) ==
    [i \in 1..Len(new_values) |->
        IF i = 1
        THEN [id |-> info.id, name |-> info.name, value |-> new_values[i]]
        ELSE [id |-> <<>>, name |-> <<>>, value |-> new_values[i]]]

\* the rows of one new attribute: name and display type on the first row only
NewAttrRows(formatted_attr_name, display_type, new_values) ==
    [i \in 1..Len(new_values) |->
        IF i = 1
        THEN [value |-> new_values[i], attribute |-> formatted_attr_name,
              display_type |-> display_type, create_variant |-> "instantly"]
        ELSE [value |-> new_values[i], attribute |-> <<>>,
              display_type |-> "", create_variant |-> ""]]

\* the loop of attribute_builder_tool over attribute_data from position n on
RECURSIVE BuildAttributeRows(_, _, _, _)
BuildAttributeRows(data, existing, n, out) ==
    IF n > Len(data) THEN out
    ELSE LET attr_name == data[n][1]
             values == data[n][2].values
             raw == FindExistingAttribute(attr_name, existing)
             formatted_attr_name == FormatAttributeName(attr_name)
             existing_attr_info ==
                 IF raw # NoAttribute THEN raw
                 ELSE FindExistingAttribute(formatted_attr_name, existing)
             unique_values == SortedValues(values)
             new_values_for_attr ==
                 SelectSeq(unique_values,
                     LAMBDA v : FindExistingValue(v, existing_attr_info.values) = None)
         IN  BuildAttributeRows(data, existing, n + 1,
                 IF existing_attr_info # NoAttribute
                 THEN [existing_rows |-> out.existing_rows \o
                           ExistingAttrRows(existing_attr_info, new_values_for_attr),
                       new_rows |-> out.new_rows,
                       stats |-> [out.stats EXCEPT
                           !.existing_attributes = @ + 1,
                           !.new_values = @ + Len(new_values_for_attr),
                           !.existing_values =
                               @ + Len(unique_values) - Len(new_values_for_attr)]]
                 ELSE [existing_rows |-> out.existing_rows,
                       new_rows |-> out.new_rows \o
                           NewAttrRows(formatted_attr_name,
                                       DetermineDisplayType(values), unique_values),
                       stats |-> [out.stats EXCEPT
                           !.new_attributes = @ + 1,
                           !.new_values = @ + Len(unique_values)]])

\* the rows of the vocabulary export: an attribute row with its first
\* value, a continuation row, a row with a name and no id, and a row whose
\* id cell holds a number
AttributeExportRows ==
    { [id |-> <<"attr_flavor">>, name |-> <<"F", "l", "a", "v", "o", "r">>,
       value_id |-> <<"val_a">>, value_name |-> <<"m", "a", "n", "g", "o">>],
      [id |-> None, name |-> None,
       value_id |-> <<"val_b">>, value_name |-> <<"G", "r", "a", "p", "e", " ">>],
      [id |-> <<"attr_nic">>,
       name |-> <<"N", "i", "c", "o", "t", "i", "n", "e", " ", "L", "e", "v", "e", "l">>,
       value_id |-> <<"val_c">>, value_name |-> S_3MG],
      [id |-> None, name |-> <<"B", "r", "a", "n", "d">>,
       value_id |-> <<"val_d">>, value_name |-> S_W],
      [id |-> NotAString, name |-> <<"C", "o", "l", "o", "r">>,
       value_id |-> None, value_name |-> None] }

\* pd.read_csv gives the cells of one column one type: the id cells are
\* numbers only when no id cell holds text
OneTypePerColumn(rows) ==
    \A i, j \in 1..Len(rows) :
        rows[i].id = NotAString => rows[j].id \in {None, NotAString}

InitAttr ==
    /\ \E shapes \in SeqsUpTo(PatternShapes, MaxAttrProducts) :
           clear_products = [i \in 1..Len(shapes) |-> PatternRecord(shapes[i], i - 1)]
    /\ llm_products \in SeqsUpTo(LlmRecords, MaxLlm)
    /\ template_data = <<>>
    /\ existing_variants = <<>>
    /\ template_skus = {}
    /\ df \in SeqsUpTo(AttributeExportRows, MaxRows) \cup {Unreadable}
    /\ IF IsUnreadable(df) THEN TRUE ELSE OneTypePerColumn(df)
    /\ IdlePass
    /\ IdleAttributes
    /\ NoFiles
    /\ NoBatching
    /\ pc = "attr_load"

\* attribute_builder_tool, line 34
LoadAttributes ==
    /\ pc = "attr_load"
    /\ existing_attributes' = LoadExistingAttributes(df)
    /\ pc' = "attr_collect"
    /\ UNCHANGED <<inputs, pass, files, batching, tb_templates, tb_outputs, hw_outputs, df, attribute_data, existing_attr_csv_data,
                   new_attr_csv_data, reuse_stats>>

\* attribute_builder_tool, lines 36-52
CollectAttributes ==
    /\ pc = "attr_collect"
    /\ attribute_data' =
           CollectAll(llm_products, CollectAll(clear_products, <<>>, "regex"), "llm")
    /\ pc' = "attr_build"
    /\ UNCHANGED <<inputs, pass, files, batching, tb_templates, tb_outputs, hw_outputs, df, existing_attributes, existing_attr_csv_data,
                   new_attr_csv_data, reuse_stats>>

\* attribute_builder_tool, lines 54-143
BuildAttributes ==
    /\ pc = "attr_build"
    /\ LET out == BuildAttributeRows(attribute_data, existing_attributes, 1,
                      [existing_rows |-> <<>>, new_rows |-> <<>>,
                       stats |-> NewReuseStats])
       IN  /\ existing_attr_csv_data' = out.existing_rows
           /\ new_attr_csv_data' = out.new_rows
           /\ reuse_stats' = out.stats
    /\ pc' = "attr_done"
    /\ UNCHANGED <<inputs, pass, files, batching, tb_templates, tb_outputs, hw_outputs, df, existing_attributes, attribute_data>>

NextAttr == LoadAttributes \/ CollectAttributes \/ BuildAttributes

SpecAttr == InitAttr /\ [][NextAttr]_vars

(***************************************************************************)
(* variant_builder.py: the parser of the template export and the loader of *)
(* odoo_product_variant.csv.  An id cell is a string, "" when the cell is  *)
(* empty (NaN); a name or description cell is a Python string, None when   *)
(* the cell is empty.                                                      *)
(***************************************************************************)
S_nan == <<"n", "a", "n">>

\* the file does not exist
Missing == << [missing |-> TRUE] >>

IsMissing(rows) == rows # <<>> /\ "missing" \in DOMAIN rows[1]

HasChar(s, c) == \E i \in 1..Len(s) : s[i] = c

\* s.split(c, 1) for a string that holds c
SplitOnce(s, c) ==
    LET at == CHOOSE i \in 1..Len(s) :
                  s[i] = c /\ \A k \in 1..(i - 1) : s[k] # c
    IN  <<SubSeq(s, 1, at - 1), SubSeq(s, at + 1, Len(s))>>

\* the position of the template with this id in template_data
TemplateAt(templates, template_id) ==
    CHOOSE k \in 1..Len(templates) : templates[k].template_id = template_id

\* the loop of _parse_template_export over the rows from position i on.  The
\* name of a template whose name cell is empty is NaN; every reader of
\* template_name turns it into the string nan with str().
RECURSIVE ParseTemplateRows(_, _, _, _)
ParseTemplateRows(rows, i, templates, current_template_id) ==
    IF i > Len(rows) THEN templates
    ELSE LET row == rows[i]
             started == row.id # ""
             current == IF started THEN row.id ELSE current_template_id
             defined ==
                 IF started /\ \A k \in 1..Len(templates) :
                                   templates[k].template_id # row.id
                 THEN Append(templates,
                             [template_id |-> row.id,
                              template_name |-> IF row.name = None THEN S_nan
                                                ELSE row.name,
                              attribute_values |-> <<>>])
                 ELSE templates
             parts == SplitOnce(row.desc, ":")
             attr_name == Lower(Strip(parts[1]))
             attr_value == Strip(parts[2])
             k == TemplateAt(defined, current)
             values == IF HasKey(defined[k].attribute_values, attr_name)
                       THEN Get(defined[k].attribute_values, attr_name)
                       ELSE <<>>
         IN  IF current # "" /\ row.desc # None /\ HasChar(row.desc, ":")
                /\ row.value_id # ""
             THEN ParseTemplateRows(rows, i + 1,
                      [defined EXCEPT ![k].attribute_values =
                           Put(@, attr_name, Put(values, attr_value, row.value_id))],
                      current)
             ELSE ParseTemplateRows(rows, i + 1, defined, current)

\* _parse_template_export of a file that can be read
ParseTemplateExport(rows) == ParseTemplateRows(rows, 1, <<>>, "")

\* str(cell) if pd.notna(cell) else ""
CellStr(cell) == IF cell = None THEN <<>> ELSE cell

\* a row that continues the variant above it: no id, no name, some values
IsContinuation(row) ==
    /\ row.ID = NoVariant
    /\ Strip(CellStr(row.Name)) = <<>>
    /\ Strip(CellStr(row.Values)) # <<>>

\* the key of attribute_dict for an attribute name of the export
VariantAttributeKey(original_attr_name) ==
    LET lower == Lower(original_attr_name)
    IN  IF lower \in {K_flavor, K_nicotine_sp_level, K_color, K_resistance}
        THEN lower
        ELSE IF /\ Contains(<<"c", "o", "i", "l">>, lower)
                /\ \/ Contains(<<"t", "y", "p", "e">>, lower)
                   \/ Contains(K_model, lower)
        THEN K_coil_sp_type
        ELSE lower

\* attribute_dict of a variant from its all_attributes
RECURSIVE VariantAttributeDict(_, _)
VariantAttributeDict(all_attributes, dict) ==
    IF all_attributes = <<>> THEN dict
    ELSE LET attr == Head(all_attributes)
             parts == SplitOnce(attr, ":")
         IN  VariantAttributeDict(Tail(all_attributes),
                 IF HasChar(attr, ":")
                 THEN Put(dict, VariantAttributeKey(Strip(parts[1])), Strip(parts[2]))
                 ELSE dict)

\* existing_variants[variant_id] = info
PutVariant(variants, info) ==
    IF \E k \in 1..Len(variants) : variants[k].id = info.id
    THEN [k \in 1..Len(variants) |->
             IF variants[k].id = info.id THEN info ELSE variants[k]]
    ELSE Append(variants, info)

\* the loop of _load_existing_variants over the rows from position i on; the
\* entries under template_name|combined_attributes are left out, no reader
\* of existing_variants looks at a key without the export prefix
RECURSIVE LoadVariantRows(_, _, _)
LoadVariantRows(rows, i, variants) ==
    IF i > Len(rows) THEN variants
    ELSE IF rows[i].ID = NoVariant THEN LoadVariantRows(rows, i + 1, variants)
    ELSE LET variant_values == Strip(CellStr(rows[i].Values))
             stops == { n \in (i + 1)..Len(rows) : ~IsContinuation(rows[n]) }
             j == IF stops = {} THEN Len(rows) + 1
                  ELSE CHOOSE n \in stops : \A m \in stops : n <= m
             all_attributes ==
                 (IF variant_values # <<>> THEN <<variant_values>> ELSE <<>>)
                 \o [n \in 1..(j - i - 1) |-> Strip(rows[i + n].Values)]
         IN  LoadVariantRows(rows, j,
                 PutVariant(variants,
                     [id |-> rows[i].ID,
                      template_name |-> CellStr(rows[i].Name),
                      attribute_dict |-> VariantAttributeDict(all_attributes, <<>>)]))

\* _load_existing_variants: a missing or unreadable file gives the empty dict
LoadExistingVariants(rows) ==
    IF IsMissing(rows) \/ IsUnreadable(rows) THEN <<>>
    ELSE LoadVariantRows(rows, 1, <<>>)

(***************************************************************************)
(* The tools from their files: the variant builder reads the template      *)
(* export and odoo_product_variant.csv before its pass, the attribute      *)
(* builder reads the vocabulary export.                                    *)
(***************************************************************************)
S_Flavor_colon == <<"F", "l", "a", "v", "o", "r", ":", " ">>

S_NicotineLevel_colon ==
    <<"N", "i", "c", "o", "t", "i", "n", "e", " ", "L", "e", "v", "e", "l", ":", " ">>

\* rows of the template export: a template with its first value, a
\* continuation row, and a row with a name and no id
TemplateExportRows ==
    { [id |-> "t1", name |-> S_AJ, desc |-> S_Flavor_colon \o S_Mango,
       value_id |-> "val_1"],
      [id |-> "", name |-> None, desc |-> S_NicotineLevel_colon \o S_3MG,
       value_id |-> "val_2"],
      [id |-> "", name |-> S_AJx, desc |-> S_Flavor_colon \o S_Grape,
       value_id |-> "val_4"] }

\* rows of odoo_product_variant.csv: a variant with its first value, a
\* continuation row, and a row with a name and no id
VariantExportRows ==
    { [ID |-> [prefix |-> ExportPrefix, n |-> 1], Name |-> S_AJ,
       Values |-> S_Flavor_colon \o S_Mango],
      [ID |-> NoVariant, Name |-> None,
       Values |-> S_NicotineLevel_colon \o S_3mg],
      [ID |-> NoVariant, Name |-> S_AJ,
       Values |-> S_Flavor_colon \o S_Grape] }

InitFiles ==
    /\ \E shapes \in SeqsUpTo(PatternShapes, MaxAttrProducts) :
           clear_products = [i \in 1..Len(shapes) |-> PatternRecord(shapes[i], i - 1)]
    /\ llm_products = <<>>
    /\ template_data = <<>>
    /\ existing_variants = <<>>
    /\ template_skus = {}
    /\ odoo_product_template_file \in
           SeqsUpTo(TemplateExportRows, MaxTemplateRows) \cup {Unreadable}
    /\ odoo_product_variant_csv \in
           SeqsUpTo(VariantExportRows, MaxVariantRows) \cup {Unreadable, Missing}
    /\ df = <<>>
    /\ IdlePass
    /\ IdleAttributes
    /\ NoBatching
    /\ pc = "load"

\* a load in which _parse_template_export also swallows the failure
LoadSnapshots_lenient ==
    /\ pc = "load"
    /\ template_data' = IF IsUnreadable(odoo_product_template_file) THEN <<>>
                        ELSE ParseTemplateExport(odoo_product_template_file)
    /\ existing_variants' = LoadExistingVariants(odoo_product_variant_csv)
    /\ pc' = "start"
    /\ UNCHANGED <<clear_products, llm_products, template_skus, builders, pass>>

\* variant_builder_tool, lines 50-54: pd.read_csv raises out of
\* _parse_template_export and ends the tool; _load_existing_variants
\* returns the empty dict for a file it cannot read.  The merge of line 48
\* is part of Start.
LoadSnapshots ==
    /\ pc = "load"
    /\ IF IsUnreadable(odoo_product_template_file)
       THEN /\ pc' = "error"
            /\ UNCHANGED <<template_data, existing_variants>>
       ELSE /\ template_data' = ParseTemplateExport(odoo_product_template_file)
            /\ existing_variants' = LoadExistingVariants(odoo_product_variant_csv)
            /\ pc' = "start"
    /\ UNCHANGED <<clear_products, llm_products, template_skus, builders, pass>>

InitLoad == InitFiles \/ InitAttr

NextLoad == LoadSnapshots \/ Next \/ NextAttr

SpecLoad == InitLoad /\ [][NextLoad]_vars

(***************************************************************************)
(* _load_existing_variants applied to exports of up to MaxExportRows rows.  *)
(***************************************************************************)
MaxExportRows == 3

S_Color_colon == <<"C", "o", "l", "o", "r", ":", " ">>

S_Red == <<"R", "e", "d">>

\* rows of odoo_product_variant.csv: two variants with their first value,
\* two continuation rows, and a row with a name and no id
ExportRowKinds ==
    VariantExportRows \cup
    { [ID |-> [prefix |-> ExportPrefix, n |-> 2], Name |-> S_AJx,
       Values |-> S_Flavor_colon \o S_Grape],
      [ID |-> NoVariant, Name |-> None, Values |-> S_Color_colon \o S_Red] }

InitExport ==
    /\ clear_products = <<>>
    /\ llm_products = <<>>
    /\ template_data = <<>>
    /\ existing_variants = <<>>
    /\ template_skus = {}
    /\ odoo_product_variant_csv \in SeqsUpTo(ExportRowKinds, MaxExportRows)
    /\ odoo_product_template_file = <<>>
    /\ df = <<>>
    /\ IdlePass
    /\ IdleAttributes
    /\ NoBatching
    /\ pc = "export_call"

\* a call of _load_existing_variants
LoadVariantsCall ==
    /\ pc = "export_call"
    /\ existing_variants' = LoadExistingVariants(odoo_product_variant_csv)
    /\ pc' = "export_return"
    /\ UNCHANGED <<clear_products, llm_products, template_data, template_skus,
                   builders, pass>>

SpecExport == InitExport /\ [][LoadVariantsCall]_vars

(***************************************************************************)
(* main.py: the batch loop of run_async over the unclear products.  The    *)
(* call of the semantic extractor is the environment: it raises, returns   *)
(* nothing, returns a text without a JSON array, or returns records.       *)
(***************************************************************************)
S_dash == <<" ", "-", " ">>

\* the positions at which sub occurs in s
Occurrences(s, sub) ==
    { i \in 1..(Len(s) - Len(sub) + 1) : SubSeq(s, i, i + Len(sub) - 1) = sub }

\* _split_product_name_attributes
SplitProductNameAttributes(product) ==
    LET original_name == product.name
        dashes == Occurrences(original_name, S_dash)
        first == CHOOSE i \in dashes : \A k \in dashes : i <= k
        last == CHOOSE i \in dashes : \A k \in dashes : k <= i
        brand == Strip(SubSeq(original_name, 1, first - 1))
        name_part ==
            IF last = first
            THEN Strip(SubSeq(original_name, first + 3, Len(original_name)))
            ELSE Strip(SubSeq(original_name, first + 3, last - 1))
    IN  [index |-> product.index,
         name |-> original_name,
         brand |-> IF dashes = {} THEN None ELSE brand,
         product_name |-> IF dashes = {} THEN original_name
                          ELSE brand \o S_dash \o name_part,
         attributes_text |->
             IF dashes = {} \/ last = first THEN <<>>
             ELSE Strip(SubSeq(original_name, last + 3, Len(original_name))),
         regex_result |-> product.regex_result]

\* lines 97-107
ProcessedProducts(products) ==
    [k \in 1..Len(products) |->
        LET split_product == SplitProductNameAttributes(products[k])
        IN  [index |-> split_product.index,
             attributes_text |-> split_product.attributes_text,
             full_product |-> split_product]]

\* lines 110-119: chunks of batch_size minimal inputs
Batches(processed) ==
    [b \in 1..((Len(processed) + batch_size - 1) \div batch_size) |->
        [k \in 1..(IF b * batch_size <= Len(processed) THEN batch_size
                   ELSE Len(processed) - (b - 1) * batch_size) |->
            LET product == processed[(b - 1) * batch_size + k]
            IN  [index |-> product.index,
                 attributes_text |-> product.attributes_text]]]

\* does some processed product carry the index
HasFullProduct(index) ==
    \E k \in 1..Len(processed_products) : processed_products[k].index = index

\* lines 155-159: the full product info of the first product with the index
FullProduct(index) ==
    processed_products[CHOOSE k \in 1..Len(processed_products) :
        /\ processed_products[k].index = index
        /\ \A m \in 1..(k - 1) : processed_products[m].index # index].full_product

\* lines 150-174: the records of one parsed answer
RECURSIVE MergedResults(_)
MergedResults(attribute_results) ==
    IF attribute_results = <<>> THEN <<>>
    ELSE LET attr_result == Head(attribute_results)
             full_product == FullProduct(attr_result.index)
         IN  (IF HasFullProduct(attr_result.index)
              THEN << attr_result.attributes @@
                      [index |-> attr_result.index,
                       brand |-> full_product.brand,
                       product_name |-> full_product.product_name] >>
              ELSE <<>>)
             \o MergedResults(Tail(attribute_results))

\* lines 179-191: the fallback records of a chunk without a result
FallbackResults(batch) ==
    LET found == SelectSeq(batch, LAMBDA minimal_product :
                               HasFullProduct(minimal_product.index))
    IN  [k \in 1..Len(found) |->
            [index |-> found[k].index,
             brand |-> FullProduct(found[k].index).brand,
             product_name |-> FullProduct(found[k].index).product_name]]

\* the names of the unclear products
UnclearNames ==
    { <<"W">> \o S_dash \o <<"A">> \o S_dash \o <<"Q">>, S_AJ }

\* the regex_result of a name that no pattern matches
NoRegexResult ==
    [product_name |-> None, flavor |-> None, nicotine_mg |-> None,
     volume_ml |-> None, confidence |-> 0]

\* the records an answer of the semantic extractor can hold
AttributeResults ==
    { [index |-> i, attributes |-> [flavor |-> S_Mango]] : i \in 0..(MaxUnclear - 1) }

InitBatch ==
    /\ clear_products = <<>>
    /\ llm_products = <<>>
    /\ template_data = <<>>
    /\ existing_variants = <<>>
    /\ template_skus = {}
    /\ df = <<>>
    /\ IdlePass
    /\ IdleAttributes
    /\ NoFiles
    /\ \E names \in SeqsUpTo(UnclearNames, MaxUnclear) :
           unclear_products =
               [k \in 1..Len(names) |->
                   [index |-> k - 1, name |-> names[k],
                    regex_result |-> NoRegexResult]]
    /\ IdleBatching
    /\ tb_templates = <<>>
    /\ existing_template_updates = <<>>
    /\ new_templates = <<>>
    /\ template_summary = <<>>
    /\ hardware_attributes = <<>>
    /\ hardware_templates = <<>>
    /\ hardware_variants = <<>>
    /\ pc = "batch_prepare"

others ==
    <<clear_products, template_data, existing_variants, template_skus, pass,
      files, df, existing_attributes, attribute_data, existing_attr_csv_data,
      new_attr_csv_data, reuse_stats, tb_templates, tb_outputs, hw_outputs>>

\* run_async, lines 87-131
PrepareBatches ==
    /\ pc = "batch_prepare"
    /\ IF unclear_products = <<>>
       THEN /\ pc' = "batch_done"
            /\ UNCHANGED <<processed_products, batches>>
       ELSE /\ processed_products' = ProcessedProducts(unclear_products)
            /\ batches' = Batches(processed_products')
            /\ pc' = "batch_loop"
    /\ UNCHANGED <<llm_products, unclear_products, all_parsed_results,
                   batch_num, batch_log, others>>

\* one round of the loop of lines 134-210.  The handler of line 199 reads
\* product["product_name"] of a minimal input, which has no such key: the
\* KeyError leaves the loop and run_async raises.
ProcessBatch ==
    /\ pc = "batch_loop"
    /\ batch_num <= Len(batches)
    /\ \E outcome \in {"raises", "no_result", "unparsable", "parsed"} :
       \E attribute_results \in
              IF outcome = "parsed" THEN SeqsUpTo(AttributeResults, MaxParsed)
              ELSE {<<>>} :
          LET appended ==
                  IF outcome = "no_result" THEN FallbackResults(batches[batch_num])
                  ELSE IF outcome = "parsed" THEN MergedResults(attribute_results)
                  ELSE <<>>
          IN  /\ batch_log' = Append(batch_log,
                                     [outcome |-> outcome, appended |-> appended])
              /\ IF outcome = "raises"
                 THEN /\ pc' = "aborted"
                      /\ UNCHANGED <<all_parsed_results, llm_products, batch_num>>
                 ELSE /\ all_parsed_results' = all_parsed_results \o appended
                      /\ llm_products' = all_parsed_results'
                      /\ batch_num' = batch_num + 1
                      /\ pc' = "batch_loop"
    /\ UNCHANGED <<unclear_products, processed_products, batches, others>>

\* lines 212-216
SaveResults ==
    /\ pc = "batch_loop"
    /\ batch_num > Len(batches)
    /\ llm_products' = all_parsed_results
    /\ pc' = "batch_done"
    /\ UNCHANGED <<batching, others>>

NextBatch == PrepareBatches \/ ProcessBatch \/ SaveResults

SpecBatch == InitBatch /\ [][NextBatch]_vars

(***************************************************************************)
(* template_builder.py: the merge and the grouping of template_builder_tool *)
(***************************************************************************)
MaxMergeLlm == 2
MaxCategoryMappings == 1

S_Saleable == <<"S", "a", "l", "e", "a", "b", "l", "e">>
S_ELiquid == <<"E">>

\* standard_attrs of _collect_template_attributes
TemplateStandardAttrs ==
    << <<"flavor", K_flavor>>, <<"nicotine_mg", K_nicotine_mg>>,
       <<"volume_ml", K_volume_ml>>, <<"brand", K_brand>>,
       <<"color", K_color>>, <<"resistance_ohm", K_resistance_ohm>>,
       <<"coil_model", K_coil_model>>, <<"coil_type", K_coil_type>> >>

\* the defaultdict's fresh group
NewTemplateGroup ==
    [products |-> <<>>, attributes |-> <<>>, prices |-> <<>>, category |-> None]

\* template_attributes[attr_name].add(value) for a value that is not None
AddTemplateValue(attrs, attr_name, value) ==
    IF Strip(value) = <<>> THEN attrs
    ELSE Put(attrs, attr_name,
             (IF HasKey(attrs, attr_name) THEN Get(attrs, attr_name) ELSE {})
                 \cup {Strip(value)})

RECURSIVE CollectTemplateStandard(_, _, _)
CollectTemplateStandard(product, attrs, n) ==
    IF n > Len(TemplateStandardAttrs) THEN attrs
    ELSE LET f == TemplateStandardAttrs[n][1]
         IN  CollectTemplateStandard(product,
                 IF f \in DOMAIN product /\ product[f] # None
                 THEN AddTemplateValue(attrs, TemplateStandardAttrs[n][2], product[f])
                 ELSE attrs,
                 n + 1)

RECURSIVE CollectTemplateNested(_, _)
CollectTemplateNested(items, attrs) ==
    IF items = <<>> THEN attrs
    ELSE CollectTemplateNested(Tail(items),
             IF items[1][2] # None
             THEN AddTemplateValue(attrs, items[1][1], items[1][2])
             ELSE attrs)

\* _collect_template_attributes
CollectTemplateAttributes(product, attrs) ==
    LET standard == CollectTemplateStandard(product, attrs, 1)
    IN  IF "attributes" \in DOMAIN product
        THEN CollectTemplateNested(product.attributes, standard)
        ELSE standard

\* category_lookup.get(template_name, 'Saleable'); the last item of a
\* product name is the one the dict comprehension keeps
CategoryLookup(category_mappings, template_name) ==
    IF \E i \in 1..Len(category_mappings) :
           category_mappings[i].product_name = template_name
    THEN category_mappings[
             CHOOSE i \in 1..Len(category_mappings) :
                 /\ category_mappings[i].product_name = template_name
                 /\ \A j \in (i + 1)..Len(category_mappings) :
                        category_mappings[j].product_name # template_name
         ].category_name
    ELSE S_Saleable

\* product.get('product_name', product.get('name'))
TemplateNameOf(product) ==
    IF "product_name" \in DOMAIN product THEN product.product_name
    ELSE GetF(product, "name", None)

\* one turn of the loop of _group_products_by_template
GroupProduct(templates, product, category_mappings) ==
    LET template_name == TemplateNameOf(product)
        group == IF HasKey(templates, template_name)
                 THEN Get(templates, template_name) ELSE NewTemplateGroup
    IN  IF template_name = None \/ template_name = <<>> THEN templates
        ELSE Put(templates, template_name,
                 [products |-> Append(group.products, product),
                  category |-> CategoryLookup(category_mappings, template_name),
                  prices |-> IF "price" \in DOMAIN product /\ product.price # 0
                             THEN Append(group.prices, product.price)
                             ELSE group.prices,
                  attributes |-> CollectTemplateAttributes(product, group.attributes)])

\* _group_products_by_template
RECURSIVE GroupProductsByTemplate(_, _, _)
GroupProductsByTemplate(products, category_mappings, templates) ==
    IF products = <<>> THEN templates
    ELSE GroupProductsByTemplate(Tail(products), category_mappings,
             GroupProduct(templates, products[1], category_mappings))

\* items of category_mappings.json
CategoryMappings ==
    { [product_name |-> S_AJ, category_name |-> S_ELiquid] }

\* the variables the template builder leaves alone
beside_templates ==
    <<inputs, generation_stats, variant_imports, missing_skus, result, idx,
      matching_template, existing_variant_id, template_value_ids, log, run,
      first_run, df, existing_attributes, attribute_data,
      existing_attr_csv_data, new_attr_csv_data, reuse_stats, files, batching,
      hw_outputs>>

\* template_builder_tool, lines 40-55: load and merge
TemplateMerge ==
    /\ pc = "tmpl_merge"
    /\ all_products' = clear_products \o llm_products
    /\ pc' = "tmpl_group"
    /\ UNCHANGED <<beside_templates, tb_templates, tb_outputs>>

\* template_builder_tool, line 58
TemplateGroup ==
    /\ pc = "tmpl_group"
    /\ \E category_mappings \in SeqsUpTo(CategoryMappings, MaxCategoryMappings) :
           tb_templates' =
               GroupProductsByTemplate(all_products, category_mappings, <<>>)
    /\ pc' = "tmpl_grouped"
    /\ UNCHANGED <<beside_templates, all_products, tb_outputs>>

\* the two streams, read by the variant builder or by the template builder
InitMerge ==
    /\ \E shapes \in SeqsUpTo(PatternShapes, MaxProducts) :
           clear_products = [i \in 1..Len(shapes) |-> PatternRecord(shapes[i], i - 1)]
    /\ llm_products \in SeqsUpTo(LlmRecords, MaxMergeLlm)
    /\ template_data = <<>>
    /\ existing_variants = <<>>
    /\ template_skus = {}
    /\ pc \in {"start", "tmpl_merge"}
    /\ Idle

NextMerge == Start \/ TemplateMerge \/ TemplateGroup

SpecMerge == InitMerge /\ [][NextMerge]_vars

(***************************************************************************)
(* template_builder.py: the rows of template_builder_tool                  *)
(***************************************************************************)
MaxTemplateProducts == 2
MaxTemplateLlm == 1
MaxExistingTemplates == 1

S_aj == <<"a", " ", "j">>
S_a_j_x == <<"a", " ", "j", "-", "x">>
S_template_ == <<"t", "e", "m", "p", "l", "a", "t", "e", "_">>
S_value_ == <<"v", "a", "l", "u", "e", "_">>
S_unknown == <<"u", "n", "k", "n", "o", "w", "n">>
S_mango == <<"m", "a", "n", "g", "o">>
S_default_category ==
    <<"p", "r", "o", "d", "u", "c", "t", ".", "p", "r", "o", "d", "u", "c",
      "t", "_", "c", "a", "t", "e", "g", "o", "r", "y", "_", "1">>

\* [a-zA-Z0-9]
Alphanumeric ==
    Digits \cup { CodePoints[i] : i \in { k \in 1..Len(CodePoints) :
                      LowerChar(CodePoints[k]) # CodePoints[k]
                      \/ UpperChar(CodePoints[k]) # CodePoints[k] } }

\* re.sub(r'\s+', '_', s)
RECURSIVE UnderscoreWhitespace(_)
UnderscoreWhitespace(s) ==
    IF s = <<>> THEN <<>>
    ELSE IF Head(s) \in Whitespace
         THEN <<"_">> \o UnderscoreWhitespace(LStrip(s))
         ELSE <<Head(s)>> \o UnderscoreWhitespace(Tail(s))

\* re.sub(r'_+', '_', s)
RECURSIVE CollapseUnderscores(_)
CollapseUnderscores(s) ==
    IF Len(s) < 2 THEN s
    ELSE IF s[1] = "_" /\ s[2] = "_" THEN CollapseUnderscores(Tail(s))
    ELSE <<Head(s)>> \o CollapseUnderscores(Tail(s))

\* s.strip('_')
RECURSIVE StripUnderscores(_)
StripUnderscores(s) ==
    IF s # <<>> /\ Head(s) = "_" THEN StripUnderscores(Tail(s))
    ELSE IF s # <<>> /\ s[Len(s)] = "_"
         THEN StripUnderscores(SubSeq(s, 1, Len(s) - 1))
         ELSE s

\* _generate_template_external_id
GenerateTemplateExternalId(template_name) ==
    LET clean_name == SelectSeq(template_name,
                          LAMBDA c : c \in Alphanumeric \cup Whitespace \cup {"-"})
    IN  S_template_ \o Lower(UnderscoreWhitespace(Strip(clean_name)))

\* _sanitize_value
SanitizeValue(value) ==
    LET lowered == Lower(value)
        sanitized == StripUnderscores(CollapseUnderscores(
            [i \in 1..Len(lowered) |->
                IF lowered[i] \in Alphanumeric \cup {"_"} THEN lowered[i] ELSE "_"]))
    IN  IF sanitized = <<>> THEN S_unknown ELSE sanitized

\* ','.join(external_ids)
RECURSIVE JoinIds(_)
JoinIds(ids) ==
    IF ids = <<>> THEN <<>>
    ELSE IF Len(ids) = 1 THEN ids[1]
    ELSE ids[1] \o <<",">> \o JoinIds(Tail(ids))

\* _get_value_external_ids
GetValueExternalIds(values, attribute_name, value_mappings) ==
    LET attr_value_mappings == IF HasKey(value_mappings, attribute_name)
                               THEN Get(value_mappings, attribute_name) ELSE <<>>
        sorted == SortedValues(values)
        external_id(value) ==
            LET value_key == Strip(Lower(value))
            IN  IF HasKey(attr_value_mappings, value_key)
                   /\ Get(attr_value_mappings, value_key) # <<>>
                THEN Get(attr_value_mappings, value_key)
                ELSE S_value_ \o SanitizeValue(value)
    IN  JoinIds([i \in 1..Len(sorted) |-> external_id(sorted[i])])

\* _map_category_to_external_id
MapCategoryToExternalId(category_name, category_external_ids) ==
    IF HasKey(category_external_ids, category_name)
       /\ Get(category_external_ids, category_name) # <<>>
    THEN Get(category_external_ids, category_name)
    ELSE IF HasKey(category_external_ids, S_Saleable)
         THEN Get(category_external_ids, S_Saleable)
         ELSE S_default_category

\* common_words of _template_names_match
CommonWords ==
    { <<"t", "h", "e">>, <<"a", "n", "d">>, <<"o", "r">>, <<"w", "i", "t", "h">>,
      <<"f", "o", "r">>, <<"k", "i", "t">>, <<"d", "e", "v", "i", "c", "e">>,
      <<"p", "a", "c", "k">>, <<"m", "l">>, <<"m", "g">> }

\* _template_names_match
TemplateNamesMatch(name1, name2) ==
    LET spaced(s) == [i \in 1..Len(s) |-> IF s[i] = "-" THEN " " ELSE s[i]]
        words1 == Words(spaced(name1)) \ CommonWords
        words2 == Words(spaced(name2)) \ CommonWords
        intersection == words1 \cap words2
        union == words1 \cup words2
    IN  /\ words1 # {}
        /\ words2 # {}
        /\ Cardinality(intersection) >= 2
        /\ 10 * Cardinality(intersection) >= 6 * Cardinality(union)

\* the None of _find_existing_template
NoExistingTemplate ==
    [id |-> <<>>, name |-> <<>>, category_id |-> None, attributes |-> {}]

\* _find_existing_template
FindExistingTemplate(template_name, existing_templates) ==
    LET fuzzy == { i \in 1..Len(existing_templates) :
                     TemplateNamesMatch(Lower(template_name),
                                        Lower(existing_templates[i][1])) }
    IN  IF HasKey(existing_templates, template_name)
        THEN Get(existing_templates, template_name)
        ELSE IF fuzzy = {} THEN NoExistingTemplate
        ELSE existing_templates[CHOOSE i \in fuzzy : \A k \in fuzzy : i <= k][2]

\* the loop of _generate_existing_template_update
RECURSIVE ExistingTemplateUpdateRows(_, _, _, _)
ExistingTemplateUpdateRows(items, existing_template, attribute_mappings, value_mappings) ==
    IF items = <<>> THEN <<>>
    ELSE LET attr_name == items[1][1]
             attr_external_id == IF HasKey(attribute_mappings, Lower(attr_name))
                                 THEN Get(attribute_mappings, Lower(attr_name))
                                 ELSE <<>>
             rest == ExistingTemplateUpdateRows(Tail(items), existing_template,
                                                attribute_mappings, value_mappings)
         IN  IF attr_external_id = <<>>
                \/ attr_external_id \in existing_template.attributes
             THEN rest
             ELSE << [id |-> existing_template.id,
                      attribute_id |-> attr_external_id,
                      value_ids |-> GetValueExternalIds(items[1][2], attr_name,
                                                        value_mappings)] >> \o rest

\* _generate_existing_template_update
GenerateExistingTemplateUpdate(existing_template, template_group, attribute_mappings, value_mappings) ==
    ExistingTemplateUpdateRows(template_group.attributes, existing_template,
                               attribute_mappings, value_mappings)

\* attribute_priority of _generate_new_template
attribute_priority == <<K_flavor, K_nicotine_mg, K_volume_ml>>

\* all_attributes of _generate_new_template
AllAttributes(attributes) ==
    attribute_priority \o
    SelectSeq([i \in 1..Len(attributes) |-> attributes[i][1]],
              LAMBDA attr : \A p \in 1..Len(attribute_priority) :
                                attribute_priority[p] # attr)

RECURSIVE SumPrices(_)
SumPrices(prices) ==
    IF prices = <<>> THEN 0 ELSE Head(prices) + SumPrices(Tail(prices))

\* f"{avg_price:.2f}" in hundredths: sum(prices) / len(prices), or 0.0,
\* rounded to two decimals
AveragePrice(prices) ==
    IF prices = <<>> THEN 0
    ELSE (200 * SumPrices(prices) + Len(prices)) \div (2 * Len(prices))

\* the loop of _generate_new_template over all_attributes
RECURSIVE NewTemplateRows(_, _, _, _)
NewTemplateRows(all_attributes, first_row, header, lookup) ==
    IF all_attributes = <<>> THEN <<>>
    ELSE LET attr_name == all_attributes[1]
             attr_external_id ==
                 IF HasKey(lookup.attribute_mappings, attr_name)
                 THEN Get(lookup.attribute_mappings, attr_name) ELSE <<>>
             emits == /\ HasKey(lookup.attributes, attr_name)
                      /\ attr_external_id # <<>>
             value_external_ids ==
                 GetValueExternalIds(Get(lookup.attributes, attr_name), attr_name,
                                     lookup.value_mappings)
             lines == [attribute_id |-> attr_external_id,
                       value_ids |-> value_external_ids]
             row == IF first_row
                    THEN [id |-> header.id, name |-> header.name,
                          categ_id |-> header.categ_id, type |-> "consu",
                          sale_ok |-> "True", list_price |-> <<header.list_price>>,
                          attribute_id |-> lines.attribute_id,
                          value_ids |-> lines.value_ids]
                    ELSE [id |-> <<>>, name |-> <<>>, categ_id |-> <<>>,
                          type |-> "", sale_ok |-> "", list_price |-> <<>>,
                          attribute_id |-> lines.attribute_id,
                          value_ids |-> lines.value_ids]
         IN  IF emits
             THEN <<row>> \o NewTemplateRows(Tail(all_attributes), FALSE, header, lookup)
             ELSE NewTemplateRows(Tail(all_attributes), first_row, header, lookup)

\* _generate_new_template
GenerateNewTemplate(template_name, template_ext_id, template_group, attribute_mappings, value_mappings, category_external_ids) ==
    NewTemplateRows(AllAttributes(template_group.attributes), TRUE,
        [id |-> template_ext_id, name |-> template_name,
         categ_id |-> MapCategoryToExternalId(template_group.category,
                                              category_external_ids),
         list_price |-> AveragePrice(template_group.prices)],
        [attributes |-> template_group.attributes,
         attribute_mappings |-> attribute_mappings,
         value_mappings |-> value_mappings])

\* the entry of template_summary for one template
SummaryOf(template_group, external_id, status) ==
    [external_id |-> external_id, status |-> status,
     variants_count |-> Len(template_group.products),
     attributes |-> [i \in 1..Len(template_group.attributes) |->
                        template_group.attributes[i][1]],
     category |-> template_group.category]

\* the loop of template_builder_tool over templates.items(), lines 65-100
RECURSIVE EmitTemplates(_, _, _)
EmitTemplates(templates, out, lookup) ==
    IF templates = <<>> THEN out
    ELSE LET template_name == templates[1][1]
             template_group == templates[1][2]
             template_ext_id == GenerateTemplateExternalId(template_name)
             existing_template ==
                 FindExistingTemplate(template_name, lookup.existing_templates)
         IN  EmitTemplates(Tail(templates),
                 IF existing_template # NoExistingTemplate
                 THEN [out EXCEPT
                         !.existing_template_updates = @ \o
                             GenerateExistingTemplateUpdate(existing_template,
                                 template_group, lookup.attribute_mappings,
                                 lookup.value_mappings),
                         !.template_summary = Put(@, template_name,
                             SummaryOf(template_group, existing_template.id,
                                       "existing"))]
                 ELSE [out EXCEPT
                         !.new_templates = @ \o
                             GenerateNewTemplate(template_name, template_ext_id,
                                 template_group, lookup.attribute_mappings,
                                 lookup.value_mappings,
                                 lookup.category_external_ids),
                         !.template_summary = Put(@, template_name,
                             SummaryOf(template_group, template_ext_id, "new"))],
                 lookup)

\* external ids of the attribute export, as _load_attribute_mappings keys them
AttributeMappingChoices ==
    { <<>>,
      << <<K_flavor, <<"a", "1">> >> >>,
      << <<K_flavor, <<"a", "1">> >>,
         <<K_nicotine_sp_level, <<"a", "2">> >>, <<K_nicotine_mg, <<"a", "2">> >>,
         <<K_size, <<"a", "3">> >>, <<K_volume_ml, <<"a", "3">> >>,
         <<K_color, <<"a", "4">> >>,
         <<K_resistance, <<"a", "5">> >>, <<K_resistance_ohm, <<"a", "5">> >>,
         <<K_coil_sp_type, <<"a", "6">> >>, <<K_coil_type, <<"a", "6">> >> >> }

ValueMappingChoices ==
    { <<>>, << <<K_flavor, << <<S_mango, <<"v", "1">> >> >> >> >> }

CategoryExternalIdChoices ==
    { <<>>, << <<S_ELiquid, <<"c", "1">> >> >> }

\* templates of the template export, as _load_existing_templates keys them
ExistingTemplateChoices ==
    { <<S_AJ, [id |-> <<"e", "1">>, name |-> S_AJ, category_id |-> None,
               attributes |-> {<<"a", "1">>}]>>,
      <<S_a_j_x, [id |-> <<"e", "2">>, name |-> S_a_j_x, category_id |-> None,
                  attributes |-> {}]>> }

\* template_builder_tool, lines 60-121
TemplateEmit ==
    /\ pc = "tmpl_grouped"
    /\ \E attribute_mappings \in AttributeMappingChoices,
          value_mappings \in ValueMappingChoices,
          category_external_ids \in CategoryExternalIdChoices,
          existing_templates \in SeqsUpTo(ExistingTemplateChoices, MaxExistingTemplates) :
           LET out == EmitTemplates(tb_templates,
                          [existing_template_updates |-> <<>>,
                           new_templates |-> <<>>,
                           template_summary |-> <<>>],
                          [attribute_mappings |-> attribute_mappings,
                           value_mappings |-> value_mappings,
                           category_external_ids |-> category_external_ids,
                           existing_templates |-> existing_templates])
           IN  /\ existing_template_updates' = out.existing_template_updates
               /\ new_templates' = out.new_templates
               /\ template_summary' = out.template_summary
    /\ pc' = "tmpl_done"
    /\ UNCHANGED <<beside_templates, all_products, tb_templates>>

\* records of the two streams with the attribute fields the rows are built of
TemplateClearShapes ==
    { [name |-> S_r1, product_name |-> S_AJ, price |-> 5, color |-> S_Red,
       resistance_ohm |-> S_3],
      [name |-> S_r1, product_name |-> S_AJ, price |-> 7, flavor |-> S_Mango,
       volume_ml |-> S_30],
      [name |-> S_r1, product_name |-> S_AQ, price |-> 0] }

TemplateLlmRecords ==
    { [index |-> 0, product_name |-> S_AJ,
       attributes |-> << <<K_coil_type, S_W>>, <<K_flavor, S_Grape>> >>],
      [index |-> 1, product_name |-> S_aj, flavor |-> S_Mango,
       nicotine_mg |-> S_3] }

InitTemplate ==
    /\ \E shapes \in SeqsUpTo(TemplateClearShapes, MaxTemplateProducts) :
           clear_products =
               [i \in 1..Len(shapes) |->
                   [f \in DOMAIN shapes[i] \cup {"index"} |->
                       IF f = "index" THEN i - 1 ELSE shapes[i][f]]]
    /\ llm_products \in SeqsUpTo(TemplateLlmRecords, MaxTemplateLlm)
    /\ template_data = <<>>
    /\ existing_variants = <<>>
    /\ template_skus = {}
    /\ pc = "tmpl_merge"
    /\ Idle

NextTemplate == TemplateMerge \/ TemplateGroup \/ TemplateEmit

SpecTemplate == InitTemplate /\ [][NextTemplate]_vars

(***************************************************************************)
(* attribute_builder.py: calls of _find_existing_attribute                 *)
(***************************************************************************)
MaxLookupAttributes == 3

S_nicotine_strength ==
    <<"n", "i", "c", "o", "t", "i", "n", "e", " ", "s", "t", "r", "e", "n", "g", "t", "h">>

\* names of attributes of the vocabulary export
LookupNames ==
    { <<"F", "l", "a", "v", "o", "r">>, <<"F", "L", "A", "V", "O", "R">>,
      <<"N", "i", "c", "o", "t", "i", "n", "e", " ", "L", "e", "v", "e", "l">>,
      S_nicotine_strength, <<"O", "h", "m">> }

\* attribute keys of the products
LookupKeys ==
    { K_flavor, K_nicotine_mg, K_nicotine_sp_level, K_resistance, K_brand }

\* the vocabulary as _load_existing_attributes leaves it: one entry per name
InitLookup ==
    /\ clear_products = <<>>
    /\ llm_products = <<>>
    /\ template_data = <<>>
    /\ existing_variants = <<>>
    /\ template_skus = {}
    /\ IdlePass
    /\ df = <<>>
    /\ \E names \in DistinctSeqsUpTo(LookupNames, MaxLookupAttributes) :
           existing_attributes =
               [k \in 1..Len(names) |->
                   <<names[k], [id |-> <<"attr_">> \o names[k], name |-> names[k],
                                values |-> <<>>]>>]
    /\ attribute_data = <<>>
    /\ existing_attr_csv_data = <<>>
    /\ new_attr_csv_data = <<>>
    /\ reuse_stats = NewReuseStats
    /\ NoFiles
    /\ NoBatching
    /\ pc = "lookup_call"

\* a call of _find_existing_attribute; log keeps the key and what was returned
LookupCall ==
    /\ pc = "lookup_call"
    /\ \E attr_name \in LookupKeys :
           log' = << [attr_name |-> attr_name,
                      returned |-> FindExistingAttribute(attr_name,
                                                         existing_attributes)] >>
    /\ pc' = "lookup_return"
    /\ UNCHANGED <<inputs, builders, all_products, generation_stats,
                   variant_imports, missing_skus, result, idx, matching_template,
                   existing_variant_id, template_value_ids, run, first_run>>

SpecLookup == InitLookup /\ [][LookupCall]_vars

(***************************************************************************)
(* hardware_handler.py: hardware_products_handler                          *)
(***************************************************************************)
MaxMissingSkus == 3
MaxHardwareLlm == 2

S_variant_type == <<"v", "a", "r", "i", "a", "n", "t", "_", "t", "y", "p", "e">>
S_variant_ == <<"v", "a", "r", "i", "a", "n", "t", "_">>
S_Variant_sp == <<"V", "a", "r", "i", "a", "n", "t", " ">>
S_simple_ == <<"s", "i", "m", "p", "l", "e", "_">>
S_ONT == <<"O", "N", "T">>
S_S3 == <<"S", "3">>

\* the {} that sku_to_product.get(sku, {}) returns for an unknown sku
NoProductData == [found |-> FALSE]

\* a string, or None, that Python takes as true
Truthy(value) == value # None /\ value # <<>>

\* lines 45-50: the last product of each sku
RECURSIVE SkuToProduct(_, _)
SkuToProduct(products, mapping) ==
    IF products = <<>> THEN mapping
    ELSE SkuToProduct(Tail(products),
             IF Truthy(GetF(products[1], "sku", <<>>))
             THEN Put(mapping, products[1].sku, products[1])
             ELSE mapping)

\* lines 52-64: the missing skus grouped by product name
RECURSIVE ProductGroups(_, _, _)
ProductGroups(missing, sku_to_product, groups) ==
    IF missing = <<>> THEN groups
    ELSE LET product_name == missing[1].product_name
             sku == missing[1].sku
             product_data == IF HasKey(sku_to_product, sku)
                             THEN Get(sku_to_product, sku) ELSE NoProductData
             group == IF HasKey(groups, product_name)
                      THEN Get(groups, product_name) ELSE <<>>
         IN  ProductGroups(Tail(missing), sku_to_product,
                 Put(groups, product_name,
                     Append(group, [sku |-> sku, product_name |-> product_name,
                                    product_data |-> product_data])))

\* the fields of line 105
HardwareAttrNames ==
    <<"model", "resistance", "color", "resistance_ohm", "coil_type", "volume_ml">>

\* the keys line 112 leaves out
HardwareExcluded == {K_index, K_brand, K_product_name, K_name, K_sku, K_price}

\* lines 105-107
RECURSIVE StandardParts(_, _)
StandardParts(product_data, n) ==
    IF n > Len(HardwareAttrNames) THEN <<>>
    ELSE (IF HardwareAttrNames[n] \in DOMAIN product_data
             /\ Truthy(product_data[HardwareAttrNames[n]])
          THEN <<product_data[HardwareAttrNames[n]]>> ELSE <<>>)
         \o StandardParts(product_data, n + 1)

\* lines 110-113
RECURSIVE NestedParts(_)
NestedParts(items) ==
    IF items = <<>> THEN <<>>
    ELSE (IF Truthy(items[1][2]) /\ items[1][1] \notin HardwareExcluded
          THEN <<items[1][2]>> ELSE <<>>)
         \o NestedParts(Tail(items))

\* sku.split('ONT')[-1]: what follows the last ONT of the sku
RECURSIVE AfterLastONT(_)
AfterLastONT(sku) ==
    IF Contains(S_ONT, sku)
    THEN LET at == CHOOSE i \in 1..Len(sku) :
                       /\ SubSeq(sku, i, i + 2) = S_ONT
                       /\ \A k \in 1..(i - 1) : SubSeq(sku, k, k + 2) # S_ONT
         IN  AfterLastONT(SubSeq(sku, at + 3, Len(sku)))
    ELSE sku

\* lines 101-125: the description of the variant of one product
VariantDescription(product) ==
    LET product_data == product.product_data
        found == StandardParts(product_data, 1) \o
                 (IF "attributes" \in DOMAIN product_data
                  THEN NestedParts(product_data.attributes) ELSE <<>>)
        variant_parts == IF found = <<>>
                         THEN <<S_Variant_sp \o AfterLastONT(product.sku)>>
                         ELSE found
    IN  JoinWords(SplitWords(JoinWords(variant_parts)))

\* re.sub(r'[^a-zA-Z0-9]', '_', s.lower())
SafeName(s) ==
    [i \in 1..Len(s) |->
        IF LowerChar(s[i]) \in Alphanumeric THEN LowerChar(s[i]) ELSE "_"]

\* s[:100]
First100(s) == SubSeq(s, 1, IF Len(s) < 100 THEN Len(s) ELSE 100)

\* lines 127-130
VariantValueId(product_name, variant_description) ==
    First100(S_variant_ \o SafeName(product_name) \o <<"_">>
             \o SafeName(variant_description))

\* lines 95-137: variant_values of one group
VariantValues(product_name, products) ==
    [k \in 1..Len(products) |->
        [description |-> VariantDescription(products[k]),
         value_id |-> VariantValueId(product_name,
                                     VariantDescription(products[k])),
         product |-> products[k]]]

\* lines 143-155: the value rows a group adds to the shared attribute
RECURSIVE AddAttributeValues(_, _)
AddAttributeValues(variant_values, acc) ==
    IF variant_values = <<>> THEN acc
    ELSE AddAttributeValues(Tail(variant_values),
             IF variant_values[1].description \in acc.unique_attribute_values
             THEN acc
             ELSE [acc EXCEPT
                     !.unique_attribute_values =
                         @ \cup {variant_values[1].description},
                     !.hardware_attributes = Append(@,
                         [id |-> variant_values[1].value_id,
                          name |-> variant_values[1].description,
                          attribute_id |-> S_variant_type,
                          display_type |-> "", create_variant |-> ""])])

\* float(product_data.get('price', 0))
HardwarePrice(product) == GetF(product.product_data, "price", 0)

\* lines 157-193: the template row and the variant rows of a group of several
\* products; prices are in hundredths
TemplateWithVariants(product_name, variant_values, acc) ==
    [acc EXCEPT
       !.hardware_templates = Append(@,
           [id |-> First100(S_template_ \o SafeName(product_name)),
            name |-> product_name,
            type |-> "consu",
            standard_price |-> AveragePrice(
                [k \in 1..Len(variant_values) |->
                    HardwarePrice(variant_values[k].product)]),
            default_code |-> <<>>,
            attribute_id |-> S_variant_type,
            value_ids |-> [k \in 1..Len(variant_values) |->
                              variant_values[k].value_id]]),
       !.hardware_variants = @ \o
           [k \in 1..Len(variant_values) |->
               [name |-> product_name,
                value_id |-> variant_values[k].value_id,
                default_code |-> variant_values[k].product.sku,
                standard_price |-> 100 * HardwarePrice(variant_values[k].product)]],
       !.stats.templates_created = @ + 1,
       !.stats.variants_created = @ + Len(variant_values)]

\* lines 195-217: the simple template of a group of one product
SimpleTemplate(product_name, variant_values, acc) ==
    [acc EXCEPT
       !.hardware_templates = Append(@,
           [id |-> First100(S_simple_ \o SafeName(product_name) \o <<"_">>
                            \o variant_values[1].product.sku),
            name |-> product_name,
            type |-> "consu",
            standard_price |-> 100 * HardwarePrice(variant_values[1].product),
            default_code |-> variant_values[1].product.sku,
            attribute_id |-> <<>>,
            value_ids |-> <<>>]),
       !.stats.templates_created = @ + 1]

\* lines 92-217: the loop over the product groups
RECURSIVE ProcessGroups(_, _)
ProcessGroups(groups, acc) ==
    IF groups = <<>> THEN acc
    ELSE LET product_name == groups[1][1]
             variant_values == VariantValues(product_name, groups[1][2])
             valued == AddAttributeValues(variant_values, acc)
         IN  ProcessGroups(Tail(groups),
                 IF Len(variant_values) > 1
                 THEN TemplateWithVariants(product_name, variant_values, valued)
                 ELSE SimpleTemplate(product_name, variant_values, valued))

\* hardware_products_handler
HandleHardware ==
    /\ pc = "hardware_call"
    /\ LET groups == ProductGroups(missing_skus, SkuToProduct(llm_products, <<>>), <<>>)
           out == ProcessGroups(groups,
                      [unique_attribute_values |-> {},
                       hardware_attributes |->
                           << [id |-> S_variant_type, name |-> <<"Variant Type">>,
                               attribute_id |-> <<>>,
                               display_type |-> "radio",
                               create_variant |-> "always"] >>,
                       hardware_templates |-> <<>>,
                       hardware_variants |-> <<>>,
                       stats |-> [product_groups |-> Len(groups),
                                  total_missing_skus |-> Len(missing_skus),
                                  attributes_created |-> 0,
                                  templates_created |-> 0,
                                  variants_created |-> 0]])
       IN  /\ hardware_attributes' = out.hardware_attributes
           /\ hardware_templates' = out.hardware_templates
           /\ hardware_variants' = out.hardware_variants
           /\ result' = [status |-> "success",
                         stats |-> [out.stats EXCEPT !.attributes_created = 1]]
    /\ pc' = "hardware_done"
    /\ UNCHANGED <<inputs, df, existing_attributes, attribute_data,
                   existing_attr_csv_data, new_attr_csv_data, reuse_stats, files,
                   batching, tb_templates, tb_outputs, all_products,
                   generation_stats, variant_imports, missing_skus, idx,
                   matching_template, existing_variant_id, template_value_ids,
                   log, run, first_run>>

\* entries of missing_skus.json
MissingSkuEntries ==
    { [sku |-> sku, product_name |-> product_name, source |-> "llm",
       reason |-> "no_template_match"] :
          sku \in {S_S1, S_S2, S_S3}, product_name \in {S_AJ, S_AQ} }

\* records of llm_parsed_results.json that carry a sku
HardwareLlmRecords ==
    { [index |-> 0, sku |-> S_S1, product_name |-> S_AJ, price |-> 5,
       color |-> S_Red],
      [index |-> 1, sku |-> S_S2, product_name |-> S_AQ, price |-> 7,
       attributes |-> << <<K_color, S_Red>>, <<K_brand, S_W>> >>] }

InitHardware ==
    /\ clear_products = <<>>
    /\ llm_products \in SeqsUpTo(HardwareLlmRecords, MaxHardwareLlm)
    /\ template_data = <<>>
    /\ existing_variants = <<>>
    /\ template_skus = {}
    /\ all_products = <<>>
    /\ generation_stats = NewStats(<<>>, <<>>)
    /\ variant_imports = <<>>
    /\ missing_skus \in SeqsUpTo(MissingSkuEntries, MaxMissingSkus)
    /\ result = NoResult
    /\ idx = 1
    /\ matching_template = NoTemplate
    /\ existing_variant_id = NoVariant
    /\ template_value_ids = <<>>
    /\ log = <<>>
    /\ run = 1
    /\ first_run = NoRun
    /\ df = <<>>
    /\ IdleAttributes
    /\ NoFiles
    /\ NoBatching
    /\ pc = "hardware_call"

SpecHardware == InitHardware /\ [][HandleHardware]_vars

(***************************************************************************)
(* Properties.                                                             *)
(***************************************************************************)
\* the index the first loop gives the i-th pattern record
PatternIndex(i) == GetF(clear_products[i], "index", i - 1)

InPatternStream(index) == \E i \in 1..Len(clear_products) : PatternIndex(i) = index

InSemanticStream(index) ==
    \E j \in 1..Len(llm_products) :
        "index" \in DOMAIN llm_products[j] /\ llm_products[j].index = index

\* field f of record r, or the default of an absent field
FieldOr(r, f, default) == IF f \in DOMAIN r THEN r[f] ELSE default

\* every scalar field of merged record p is the one of source record r
ScalarsFrom(p, r) ==
    /\ p.name = FieldOr(r, "name", <<>>)
    /\ p.sku = FieldOr(r, "sku", <<>>)
    /\ p.price = FieldOr(r, "price", 0)
    /\ p.product_name = FieldOr(r, "product_name", <<>>)
    /\ p.brand = FieldOr(r, "brand", <<>>)

\* attribute <<key, value>> is carried by source record r, at its top level
\* or in its nested dict
AttributeFrom(kv, r, nested) ==
    \/ \E n \in 1..Len(DirectAttrNames) :
           /\ DirectAttrNames[n][2] = kv[1]
           /\ DirectAttrNames[n][1] \in DOMAIN r
           /\ r[DirectAttrNames[n][1]] = kv[2]
    \/ /\ nested \in DOMAIN r
       /\ \E m \in 1..Len(r[nested]) : r[nested][m] = kv

Product(k) == all_products[k]

TemplateOf(k) == FindMatchingTemplate(Product(k), template_data)

ValuesOf(k) == FindTemplateValueCombination(Product(k), TemplateOf(k))

VariantOf(k) == FindExistingVariantId(Product(k), TemplateOf(k), existing_variants)

\* the pass is through with product k
Finished(k) == log[k].outcome \notin {"pending", "error"}

IsPrefix(s, t) == Len(s) <= Len(t) /\ SubSeq(t, 1, Len(s)) = s

StageOrderSpecified ==
    <<"TemplateMatch", "ValueResolve", "VariantIdentityResolve", "Emit">>

StageOrderOfCode ==
    <<"TemplateMatch", "VariantIdentityResolve", "ValueResolve", "Emit">>

C4_AlwaysCompletes ==
    /\ pc # "error"
    /\ pc = "done" =>
           /\ idx = Len(all_products) + 1
           /\ result.generation_stats = generation_stats
           /\ generation_stats.total_products = Len(all_products)

\* the miss report holds an entry for product p with the given reason
HasEntry(p, reason) ==
    \E e \in 1..Len(missing_skus) :
        /\ missing_skus[e].sku = p.sku
        /\ missing_skus[e].source = p.source
        /\ missing_skus[e].product_name \in {p.product_name, p.name}
        /\ missing_skus[e].reason = reason

\* the reason the pass gave for the miss of product k
ReasonOf(k) ==
    IF log[k].outcome = "template_miss"
    THEN "no_template_match" ELSE "no_attribute_match"

IsMiss(k) == log[k].outcome \in {"template_miss", "attribute_miss"}

\* C5 as specified: every product counted as a miss has a report entry with
\* its reason, and no emitted product has one.
C5_EveryMissReported ==
    pc \in {"return", "done"} =>
        \A k \in 1..Len(log) :
            /\ IsMiss(k) => HasEntry(Product(k), ReasonOf(k))
            /\ log[k].outcome = "variant" =>
                   ~\E r \in {"no_template_match", "no_attribute_match"} :
                        HasEntry(Product(k), r)

\* C5 as implemented: every product counted as a miss whose sku is not empty, is
\* not the sku of an emitted variant record and is not a template sku has a
\* report entry, with reason no_template_match exactly when its template
\* match failed; no emitted product has an entry.
C5_MissReport ==
    pc \in {"return", "done"} =>
        \A k \in 1..Len(log) :
            /\ ( /\ IsMiss(k)
                 /\ Product(k).sku # <<>>
                 /\ Product(k).sku \notin template_skus
                 /\ \A v \in 1..Len(variant_imports) :
                        variant_imports[v].default_code # Product(k).sku )
               => /\ HasEntry(Product(k), ReasonOf(k))
                  /\ \A r \in {"no_template_match", "no_attribute_match"} \ {ReasonOf(k)} :
                         ~HasEntry(Product(k), r)
            /\ log[k].outcome = "variant" =>
                   ~\E r \in {"no_template_match", "no_attribute_match"} :
                        HasEntry(Product(k), r)

\* C5 witness: a report with a template miss and an attribute miss
C5_Witness ==
    /\ pc = "done"
    /\ \E k \in 1..Len(log) :
           log[k].outcome = "template_miss" /\ HasEntry(Product(k), "no_template_match")
    /\ \E k \in 1..Len(log) :
           log[k].outcome = "attribute_miss" /\ HasEntry(Product(k), "no_attribute_match")

\* product k was taken up by the loop
Processed(k) == log[k].stages # <<>>

\* the two names are tied by one of the rules of the matcher: equal, one
\* contains the other (case-insensitively), or 70% of the words of the
\* shorter one are words of the other
NamesRelated(product_name, template_name) ==
    \/ product_name = template_name
    \/ Contains(Lower(product_name), Lower(template_name))
    \/ Contains(Lower(template_name), Lower(product_name))
    \/ WordOverlapAtLeast(Words(Lower(product_name)),
                          Words(Lower(template_name)), 7)

\* product k went through template matching as a miss and nothing else
CountedTemplateMiss(k) ==
    /\ log[k].outcome = "template_miss"
    /\ log[k].stages = <<"TemplateMatch">>
    /\ log[k].after.template_misses = log[k].before.template_misses + 1
    /\ log[k].after.variants_generated = log[k].before.variants_generated
    /\ log[k].after.attribute_misses = log[k].before.attribute_misses

\* C7 as specified: a product whose display name has a word overlap below 70%
\* with every template name is a template miss: no template, template_misses
\* one more, no variant record.
C7_LowOverlapIsMiss ==
    \A k \in 1..Len(log) :
        ( /\ Processed(k)
          /\ \A t \in 1..Len(template_data) :
                 ~WordOverlapAtLeast(
                      Words(Lower(NameOf(Product(k).product_name))),
                      Words(Lower(NameOf(template_data[t].template_name))), 7) )
        => TemplateOf(k) = NoTemplate /\ CountedTemplateMiss(k)

\* C7 as implemented: a product whose effective name (the display name, or the
\* raw name when the display name is empty) neither equals, nor contains, nor
\* is contained in, nor has a word overlap of 70% with any template name is a
\* template miss: no template, template_misses one more, no variant record.
C7_UnrelatedIsMiss ==
    \A k \in 1..Len(log) :
        ( /\ Processed(k)
          /\ \A t \in 1..Len(template_data) :
                 ~NamesRelated(ProductMatchName(Product(k)),
                               NameOf(template_data[t].template_name)) )
        => TemplateOf(k) = NoTemplate /\ CountedTemplateMiss(k)

\* C7 witness: a template miss of a product that shares half of its words
\* with a template name
C7_Witness ==
    \E k \in 1..Len(log) :
        /\ CountedTemplateMiss(k)
        /\ \A t \in 1..Len(template_data) :
               ~NamesRelated(ProductMatchName(Product(k)),
                             NameOf(template_data[t].template_name))
        /\ \E t \in 1..Len(template_data) :
               WordOverlapAtLeast(
                   Words(Lower(ProductMatchName(Product(k)))),
                   Words(Lower(NameOf(template_data[t].template_name))), 5)

\* C8: a product the pass is through with, whose template matched with at
\* least one axis and for which no axis resolves to a value id, is an
\* attribute miss: attribute_misses one more, variants_generated unchanged,
\* no variant record.
C8_AttributeMiss ==
    \A k \in 1..Len(log) :
        ( /\ Processed(k) /\ log[k].outcome # "pending"
          /\ TemplateOf(k) # NoTemplate
          /\ TemplateOf(k).attribute_values # <<>>
          /\ ValuesOf(k) = <<>> )
        => /\ log[k].outcome = "attribute_miss"
           /\ log[k].after.attribute_misses = log[k].before.attribute_misses + 1
           /\ log[k].after.variants_generated = log[k].before.variants_generated
           /\ "Emit" \notin { log[k].stages[n] : n \in 1..Len(log[k].stages) }

\* the display name of the call and the templates whose trimmed name is the
\* trimmed display name
DisplayName == all_products[1].product_name

SameNameTemplates ==
    { t \in 1..Len(template_data) :
          Strip(template_data[t].template_name) = Strip(DisplayName) }

CallAttributes == all_products[1].attributes

AxisName(a) == matching_template.attribute_values[a][1]

Vocabulary(a) == matching_template.attribute_values[a][2]

AxisPresent(a) == AxisProductKey(AxisName(a), CallAttributes) # None

AxisValue(a) ==
    Strip(Get(CallAttributes, AxisProductKey(AxisName(a), CallAttributes)))

\* the product value matches the vocabulary value by one of the four rules:
\* equal ignoring case, same first number for a value of digits, dots and
\* dashes, one contains the other, or 80% of the words of the shorter one
ValueMatchesByRule(value, vocab_value) ==
    LET v == Strip(Lower(value))
        w == Strip(Lower(vocab_value))
    IN  \/ v = w
        \/ /\ IsDigit(RemoveChar(RemoveChar(v, "."), "-"))
           /\ FirstNumber(w) # <<>>
           /\ FirstNumber(w) = FirstNumber(v)
        \/ Contains(v, w)
        \/ Contains(w, v)
        \/ WordOverlapAtLeast(Words(v), Words(w), 8)

\* C9 as specified: when an axis of the template is present in the product's
\* attributes, directly or through an alias, the list of value ids is not
\* empty.
C9_PresentAxisResolves ==
    pc = "value_return" =>
        ((\E a \in 1..Len(matching_template.attribute_values) : AxisPresent(a))
             => template_value_ids # <<>>)

\* C9 as implemented: when an axis of the template is present in the product's
\* attributes, its product value is not empty after trimming, its vocabulary
\* holds no empty value name and the product value matches a vocabulary value
\* by one of the four rules, the axis adds one value id of its vocabulary and
\* the list of value ids is not empty.
C9_MatchedAxisResolves ==
    pc = "value_return" =>
        \A a \in 1..Len(matching_template.attribute_values) :
            ( /\ AxisPresent(a)
              /\ AxisValue(a) # <<>>
              /\ \A n \in 1..Len(Vocabulary(a)) : Vocabulary(a)[n][1] # <<>>
              /\ \E n \in 1..Len(Vocabulary(a)) :
                     ValueMatchesByRule(AxisValue(a), Vocabulary(a)[n][1]) )
            => /\ Len(log[a]) = 1
               /\ \E n \in 1..Len(Vocabulary(a)) : log[a][1] = Vocabulary(a)[n][2]
               /\ template_value_ids # <<>>

\* C9 witness: an axis resolved by containment alone
C9_Witness ==
    /\ pc = "value_return"
    /\ \E a \in 1..Len(matching_template.attribute_values) :
           /\ AxisPresent(a)
           /\ AxisValue(a) # <<>>
           /\ Len(log[a]) = 1
           /\ \A n \in 1..Len(Vocabulary(a)) :
                  /\ Vocabulary(a)[n][1] # <<>>
                  /\ Strip(Lower(Vocabulary(a)[n][1])) # Strip(Lower(AxisValue(a)))
                  /\ FirstNumber(Lower(Vocabulary(a)[n][1])) = <<>>
           /\ \E n \in 1..Len(Vocabulary(a)) :
                  Contains(Lower(Vocabulary(a)[n][1]), Lower(AxisValue(a)))

\* the vocabulary of axis a has no value equal to the product value when
\* case is ignored
NoExactMatch(a) ==
    \A n \in 1..Len(Vocabulary(a)) :
        Strip(Lower(Vocabulary(a)[n][1])) # Strip(Lower(AxisValue(a)))

\* the vocabulary values of axis a with the number of the product value
SameNumber(a) ==
    { n \in 1..Len(Vocabulary(a)) :
          /\ FirstNumber(Lower(Vocabulary(a)[n][1])) # <<>>
          /\ FirstNumber(Lower(Vocabulary(a)[n][1])) = FirstNumber(Lower(AxisValue(a))) }

\* C10 as specified: when the vocabulary has no exact match and a vocabulary
\* value reduces to the numeric token of the product value, the axis resolves
\* to the id of a vocabulary value with that token.
C10_NumericTokenResolves ==
    pc = "value_return" =>
        \A a \in 1..Len(matching_template.attribute_values) :
            (AxisPresent(a) /\ NoExactMatch(a) /\ SameNumber(a) # {})
            => /\ Len(log[a]) = 1
               /\ \E n \in SameNumber(a) : log[a][1] = Vocabulary(a)[n][2]

\* C10 as implemented: when the product value consists of digits, dots and
\* dashes only, the vocabulary has no exact match and a vocabulary value has
\* the first number of the product value as its first number, the axis
\* resolves to the id of the first such vocabulary value.
C10_NumericValueResolves ==
    pc = "value_return" =>
        \A a \in 1..Len(matching_template.attribute_values) :
            ( /\ AxisPresent(a) /\ NoExactMatch(a) /\ SameNumber(a) # {}
              /\ IsDigit(RemoveChar(RemoveChar(Lower(AxisValue(a)), "."), "-")) )
            => /\ Len(log[a]) = 1
               /\ \E n \in SameNumber(a) :
                      /\ \A m \in SameNumber(a) : n <= m
                      /\ log[a][1] = Vocabulary(a)[n][2]

\* C10 witness: the numeric rule chose a value that stands behind one the
\* product value is contained in
C10_Witness ==
    /\ pc = "value_return"
    /\ \E a \in 1..Len(matching_template.attribute_values) :
           /\ AxisPresent(a) /\ NoExactMatch(a)
           /\ IsDigit(RemoveChar(RemoveChar(Lower(AxisValue(a)), "."), "-"))
           /\ \E n \in SameNumber(a) :
                  /\ log[a] = <<Vocabulary(a)[n][2]>>
                  /\ \E m \in 1..(n - 1) :
                         /\ m \notin SameNumber(a)
                         /\ Contains(Lower(Vocabulary(a)[m][1]), Lower(AxisValue(a)))

\* s starts with prefix
StartsWith(s, prefix) ==
    Len(prefix) <= Len(s) /\ SubSeq(s, 1, Len(prefix)) = prefix

\* the value ids an axis adds when the product value is read under key
IdsUnderKey(a, key) ==
    LET value == Strip(Get(CallAttributes, key))
        best == FindBestValueMatch(value, Vocabulary(a))
    IN  IF key = None THEN <<>>
        ELSE IF HasKey(Vocabulary(a), value) THEN <<Get(Vocabulary(a), value)>>
        ELSE IF best # None /\ best # <<>> THEN <<Get(Vocabulary(a), best)>>
        ELSE <<>>

\* the product key of axis a by the alias table of the specification
SpecifiedKey(a) ==
    IF HasKey(CallAttributes, AxisName(a)) THEN AxisName(a)
    ELSE IF StartsWith(AxisName(a), K_nicotine) /\ HasKey(CallAttributes, K_nicotine_mg)
    THEN K_nicotine_mg
    ELSE IF (AxisName(a) = K_size \/ StartsWith(AxisName(a), K_volume))
            /\ HasKey(CallAttributes, K_volume_ml)
    THEN K_volume_ml
    ELSE IF StartsWith(AxisName(a), K_resistance) /\ HasKey(CallAttributes, K_resistance_ohm)
    THEN K_resistance_ohm
    ELSE None

\* the product key of axis a by the branches of the code: the axis's own
\* key, else nicotine_mg for a name holding nicotine, volume_ml for a name
\* holding size, resistance_ohm for a name holding resistance
BranchKey(a) ==
    IF HasKey(CallAttributes, AxisName(a)) THEN AxisName(a)
    ELSE IF Contains(K_nicotine, AxisName(a)) /\ HasKey(CallAttributes, K_nicotine_mg)
    THEN K_nicotine_mg
    ELSE IF Contains(K_size, AxisName(a)) /\ HasKey(CallAttributes, K_volume_ml)
    THEN K_volume_ml
    ELSE IF Contains(K_resistance, AxisName(a)) /\ HasKey(CallAttributes, K_resistance_ohm)
    THEN K_resistance_ohm
    ELSE None

\* the call is Scenario A: axes flavor and nicotine level, product
\* attributes flavor = Mango and nicotine_mg = 6
ScenarioA ==
    /\ Len(matching_template.attribute_values) = 2
    /\ AxisName(1) = K_flavor /\ AxisName(2) = K_nicotine_sp_level
    /\ CallAttributes = << <<K_flavor, S_Mango>>, <<K_nicotine_mg, S_6>> >>

\* C11 as specified: every axis reads the product value under its own key,
\* else nicotine_mg for an axis starting with nicotine, volume_ml for an axis
\* named size or starting with volume, resistance_ohm for an axis starting
\* with resistance; Scenario A resolves to val_1, val_2.
C11_AliasTable ==
    pc = "axis_return" =>
        /\ \A a \in 1..Len(matching_template.attribute_values) :
               log[a] = IdsUnderKey(a, SpecifiedKey(a))
        /\ ScenarioA => template_value_ids = <<"val_1", "val_2">>

\* C11 as implemented: every axis reads the product value under its own key,
\* else nicotine_mg for an axis whose name holds nicotine, volume_ml for an
\* axis whose name holds size, resistance_ohm for an axis whose name holds
\* resistance, and nothing otherwise (an axis named volume has no alias);
\* Scenario A resolves to val_1, val_2.
C11_AxisKey ==
    pc = "axis_return" =>
        /\ \A a \in 1..Len(matching_template.attribute_values) :
               log[a] = IdsUnderKey(a, BranchKey(a))
        /\ ScenarioA => template_value_ids = <<"val_1", "val_2">>

\* C11 witness: Scenario A resolved
C11_Witness ==
    pc = "axis_return" /\ ScenarioA /\ template_value_ids = <<"val_1", "val_2">>

\* the stored variants of the matched template, by position
VariantsOfTemplate ==
    { v \in 1..Len(existing_variants) :
          Lower(existing_variants[v].template_name) =
              Lower(matching_template.template_name) }

IsExportId(id) == id.prefix = ExportPrefix

\* the comparison of the product with the signature of stored variant v
\* raises
SignatureRaises(v) ==
    StoredAttributesMatch(existing_variants[v].attribute_dict, CallAttributes)
        = "raise"

ResolvedAttribute(attr_name) ==
    LET raw == FindExistingAttribute(attr_name, existing_attributes)
    IN  IF raw # NoAttribute THEN raw
        ELSE FindExistingAttribute(FormatAttributeName(attr_name),
                                   existing_attributes)

\* the id of the block row i of existing_attr_csv_data belongs to: the id of
\* the nearest row at or before i that carries one
BlockId(i) ==
    LET heads == { k \in 1..i : existing_attr_csv_data[k].id # <<>> }
    IN  existing_attr_csv_data[CHOOSE k \in heads : \A m \in heads : m <= k].id

SameValue(a, b) == Lower(Strip(a)) = Lower(Strip(b))

AlreadyPresent(info, value) ==
    \E k \in 1..Len(info.values) : SameValue(info.values[k][1], value)

RowsOf(info) ==
    { i \in 1..Len(existing_attr_csv_data) : BlockId(i) = info.id }

\* C13: once the attribute files are built, for every attribute key that
\* resolves to an existing attribute and every observed value that equals,
\* case-insensitively and trimmed, a value the attribute already has, no
\* row of that attribute carries the value; and every row of an existing
\* attribute carries a value the attribute does not have yet.
C13_NoDuplicateValueRows ==
    pc = "attr_done" =>
        /\ \A n \in 1..Len(attribute_data) :
               LET info == ResolvedAttribute(attribute_data[n][1])
               IN  info # NoAttribute =>
                       \A v \in attribute_data[n][2].values :
                           AlreadyPresent(info, v) =>
                               \A i \in RowsOf(info) :
                                   existing_attr_csv_data[i].value # v
        /\ \A m \in 1..Len(existing_attributes) :
               \A i \in RowsOf(existing_attributes[m][2]) :
                   ~AlreadyPresent(existing_attributes[m][2],
                                   existing_attr_csv_data[i].value)

\* an observed value is suppressed against a stored value written in another
\* case while another value of the same attribute gets its row
C13_Witness ==
    /\ pc = "attr_done"
    /\ \E n \in 1..Len(attribute_data) :
           LET info == ResolvedAttribute(attribute_data[n][1])
           IN  /\ info # NoAttribute
               /\ \E v \in attribute_data[n][2].values :
                      /\ AlreadyPresent(info, v)
                      /\ \A k \in 1..Len(info.values) : info.values[k][1] # v
               /\ \E i \in RowsOf(info) :
                      existing_attr_csv_data[i].value \in attribute_data[n][2].values

(***************************************************************************)
(* Exports that cannot be loaded.                                          *)
(***************************************************************************)
TemplateExportFails == IsUnreadable(odoo_product_template_file)

VariantExportFails ==
    IsUnreadable(odoo_product_variant_csv) \/ IsMissing(odoo_product_variant_csv)

VocabularyExportFails ==
    IF IsUnreadable(df) THEN TRUE
    ELSE \E i \in 1..Len(df) : df[i].id = NotAString

NoOutcome ==
    /\ result = NoResult
    /\ variant_imports = <<>>
    /\ missing_skus = <<>>
    /\ existing_attr_csv_data = <<>>
    /\ new_attr_csv_data = <<>>

WellFormedAttributeRow(row) == (row.id = None) <=> (row.name = None)

WellFormedTemplateRow(row) == (row.id = "") <=> (row.name = None)

WellFormedVariantRow(row) == (row.ID = NoVariant) <=> (row.Name = None)

VocabularyLoaded ==
    pc \in {"attr_collect", "attr_build", "attr_done"} /\ ~VocabularyExportFails

SnapshotsLoaded ==
    /\ pc \notin {"load", "attr_load", "attr_collect", "attr_build", "attr_done"}
    /\ ~TemplateExportFails
    /\ ~VariantExportFails

\* C15: a row of the vocabulary, template or variant export that misses a
\* required field contributes nothing to the loaded snapshot, and the other
\* rows are loaded as if the row were absent: each snapshot equals the one
\* loaded from the export without its malformed rows.
C15_MalformedRowsSkipped ==
    /\ VocabularyLoaded =>
           existing_attributes =
               LoadExistingAttributes(SelectSeq(df, WellFormedAttributeRow))
    /\ SnapshotsLoaded =>
           /\ template_data =
                  ParseTemplateExport(SelectSeq(odoo_product_template_file,
                                                WellFormedTemplateRow))
           /\ existing_variants =
                  LoadExistingVariants(SelectSeq(odoo_product_variant_csv,
                                                 WellFormedVariantRow))

(***************************************************************************)
(* Chunks of the semantic extractor that fail.                             *)
(***************************************************************************)
FailedOutcomes == {"raises", "no_result", "unparsable"}

\* the records of chunk b are one fallback record per product of the chunk
IsFallbackOf(appended, b) ==
    /\ Len(appended) = Len(batches[b])
    /\ \A k \in 1..Len(appended) :
           /\ appended[k].index = batches[b][k].index
           /\ appended[k].product_name =
                  FullProduct(batches[b][k].index).product_name
           /\ "flavor" \in DOMAIN appended[k] => appended[k].flavor = None

\* C16: when the batch call of a chunk raises, returns nothing or returns a
\* text that cannot be parsed, the run is not aborted, the loop goes on, and
\* the result list holds exactly one fallback record for every product of
\* that chunk.
C16_ChunkFailureDegrades ==
    /\ pc # "aborted"
    /\ \A b \in 1..Len(batch_log) :
           batch_log[b].outcome \in FailedOutcomes =>
               IsFallbackOf(batch_log[b].appended, b)

\* the index of the k-th record of the merged collection: its index key, or
\* its position for a pattern record without the key
MergedIndex(k) == GetF(all_products[k], "index", k - 1)

\* the positions of the merged collection that represent an index
RecordsOfIndex(index) ==
    { k \in 1..Len(all_products) : MergedIndex(k) = index }

\* the indices present in either stream
StreamIndices ==
    { PatternIndex(i) : i \in 1..Len(clear_products) } \cup
    { llm_products[j].index : j \in { m \in 1..Len(llm_products) :
                                          "index" \in DOMAIN llm_products[m] } }

\* C17: once a builder has merged the two streams, the merged product
\* collection holds exactly one record for every index present in either
\* stream and no record of another index, also when the semantic stream
\* repeats an index or holds indices absent from the pattern stream.
C17_OneRecordPerIndex ==
    pc \notin {"start", "tmpl_merge"} =>
        /\ \A index \in StreamIndices : Cardinality(RecordsOfIndex(index)) = 1
        /\ \A k \in 1..Len(all_products) : MergedIndex(k) \in StreamIndices

\* C17 for the variant builder alone
VariantBuilderOneRecordPerIndex ==
    pc \notin {"start", "tmpl_merge", "tmpl_group", "tmpl_grouped"} =>
        /\ \A index \in StreamIndices : Cardinality(RecordsOfIndex(index)) = 1
        /\ \A k \in 1..Len(all_products) : MergedIndex(k) \in StreamIndices

\* the name the returned call matched by, and the templates each rule of the
\* matcher accepts for it, as positions of the template set
CalledName == ProductMatchName(all_products[1])

TemplateName(k) == NameOf(template_data[k].template_name)

ExactTemplates == { k \in 1..Len(template_data) : TemplateName(k) = CalledName }

ContainmentTemplates ==
    { k \in 1..Len(template_data) :
        \/ Contains(Lower(CalledName), Lower(TemplateName(k)))
        \/ Contains(Lower(TemplateName(k)), Lower(CalledName)) }

OverlapTemplates ==
    { k \in 1..Len(template_data) :
        LET w1 == Words(Lower(CalledName))
            w2 == Words(Lower(TemplateName(k)))
            least == IF Cardinality(w1) <= Cardinality(w2)
                     THEN Cardinality(w1) ELSE Cardinality(w2)
        IN  /\ least > 0
            /\ 10 * Cardinality(w1 \cap w2) >= 7 * least }

ReturnedFrom(S) == \E k \in S : matching_template = template_data[k]

\* C18 as specified: the returned template is matched by the earliest of the
\* rules exact, containment, word overlap >= 0.7 that any template of the
\* set satisfies; with no exact match and a containment match somewhere in
\* the set, the returned template matches by containment.
C18_RulePrecedence ==
    (pc = "match_return" /\ CalledName # <<>>) =>
        /\ ExactTemplates # {} => ReturnedFrom(ExactTemplates)
        /\ (ExactTemplates = {} /\ ContainmentTemplates # {}) =>
               ReturnedFrom(ContainmentTemplates)
        /\ (ExactTemplates = {} /\ ContainmentTemplates = {}
               /\ OverlapTemplates # {}) => ReturnedFrom(OverlapTemplates)

\* C18 as implemented: a template of the exact rule is returned when any
\* template satisfies it; otherwise the returned template is the first one in
\* iteration order that matches by containment or by word overlap >= 0.7,
\* so an earlier template that matches only by word overlap is returned
\* before a later one that matches by containment.
C18_ExactThenFirstFuzzy ==
    (pc = "match_return" /\ CalledName # <<>>) =>
        /\ ExactTemplates # {} => ReturnedFrom(ExactTemplates)
        /\ (ExactTemplates = {}
               /\ ContainmentTemplates \cup OverlapTemplates # {}) =>
               \E k \in ContainmentTemplates \cup OverlapTemplates :
                   /\ \A m \in ContainmentTemplates \cup OverlapTemplates : k <= m
                   /\ matching_template = template_data[k]
        /\ (ExactTemplates \cup ContainmentTemplates \cup OverlapTemplates = {}) =>
               matching_template = NoTemplate

\* C18 witness: no exact match, the first template matches only by word
\* overlap, a later one by containment, and the first one is returned
C18_Witness ==
    /\ pc = "match_return"
    /\ CalledName # <<>>
    /\ ExactTemplates = {}
    /\ 1 \in OverlapTemplates \ ContainmentTemplates
    /\ 2 \in ContainmentTemplates
    /\ matching_template = template_data[1]

\* axis a of the returned call added one value id
AxisResolved(a) == AxisPresent(a) /\ Len(log[a]) = 1

\* the position in the vocabulary of axis a of the value whose id was added
ChosenValue(a) ==
    CHOOSE n \in 1..Len(Vocabulary(a)) : Vocabulary(a)[n][2] = log[a][1]

VocabularyValue(a, n) == Strip(Lower(Vocabulary(a)[n][1]))

\* the positions of the vocabulary of axis a that each rule accepts for the
\* product value
ExactValues(a) ==
    { n \in 1..Len(Vocabulary(a)) : VocabularyValue(a, n) = Lower(AxisValue(a)) }

NumericValues(a) ==
    { n \in 1..Len(Vocabulary(a)) :
        /\ IsDigit(RemoveChar(RemoveChar(Lower(AxisValue(a)), "."), "-"))
        /\ FirstNumber(VocabularyValue(a, n)) # <<>>
        /\ FirstNumber(VocabularyValue(a, n)) = FirstNumber(Lower(AxisValue(a))) }

ContainmentValues(a) ==
    { n \in 1..Len(Vocabulary(a)) :
        \/ Contains(Lower(AxisValue(a)), VocabularyValue(a, n))
        \/ Contains(VocabularyValue(a, n), Lower(AxisValue(a))) }

OverlapValues(a) ==
    { n \in 1..Len(Vocabulary(a)) :
        LET w1 == Words(Lower(AxisValue(a)))
            w2 == Words(VocabularyValue(a, n))
            least == IF Cardinality(w1) <= Cardinality(w2)
                     THEN Cardinality(w1) ELSE Cardinality(w2)
        IN  /\ least > 0
            /\ 10 * Cardinality(w1 \cap w2) >= 8 * least }

\* C19 as specified: the vocabulary value chosen for an axis is matched by the
\* earliest of the rules exact, numeric, containment, word overlap >= 0.8
\* that any value of the vocabulary satisfies; a value matching by
\* containment is chosen over an earlier value that matches only by word
\* overlap.
C19_ValueRulePrecedence ==
    pc = "value_return" =>
        \A a \in 1..Len(matching_template.attribute_values) :
            AxisResolved(a) =>
                /\ ExactValues(a) # {} => ChosenValue(a) \in ExactValues(a)
                /\ (ExactValues(a) = {} /\ NumericValues(a) # {}) =>
                       ChosenValue(a) \in NumericValues(a)
                /\ (ExactValues(a) = {} /\ NumericValues(a) = {}
                       /\ ContainmentValues(a) # {}) =>
                       ChosenValue(a) \in ContainmentValues(a)
                /\ (ExactValues(a) = {} /\ NumericValues(a) = {}
                       /\ ContainmentValues(a) = {}) =>
                       ChosenValue(a) \in OverlapValues(a)

\* C19 as implemented: the chosen value is matched by the exact rule when any
\* value satisfies it, else by the numeric rule when any value satisfies it,
\* else it is the first value in vocabulary order that matches by containment
\* or by word overlap >= 0.8; an earlier value that matches only by word
\* overlap is chosen before a later one that matches by containment.
C19_ExactNumericThenFirstPartial ==
    pc = "value_return" =>
        \A a \in 1..Len(matching_template.attribute_values) :
            AxisResolved(a) =>
                /\ ExactValues(a) # {} => ChosenValue(a) \in ExactValues(a)
                /\ (ExactValues(a) = {} /\ NumericValues(a) # {}) =>
                       ChosenValue(a) \in NumericValues(a)
                /\ (ExactValues(a) = {} /\ NumericValues(a) = {}) =>
                       /\ ChosenValue(a) \in ContainmentValues(a) \cup OverlapValues(a)
                       /\ \A m \in ContainmentValues(a) \cup OverlapValues(a) :
                              ChosenValue(a) <= m

\* C19 witness: no exact and no numeric match, the first value matches only by
\* word overlap, the second by containment, and the first one is chosen
C19_Witness ==
    /\ pc = "value_return"
    /\ \E a \in 1..Len(matching_template.attribute_values) :
           /\ AxisResolved(a)
           /\ ExactValues(a) = {} /\ NumericValues(a) = {}
           /\ 1 \in OverlapValues(a) \ ContainmentValues(a)
           /\ 2 \in ContainmentValues(a)
           /\ ChosenValue(a) = 1

\* the product attribute key belongs to the signature key: the same name, an
\* internal variation of it, or a name that contains it or is contained in it
KeyCorresponds(signature_key, product_key) ==
    LET s == Strip(Lower(signature_key))
    IN  \/ s = product_key
        \/ \E g \in 1..Len(AttributeMappings) :
               /\ AttributeMappings[g][1] = s
               /\ \E v \in 1..Len(AttributeMappings[g][2]) :
                      AttributeMappings[g][2][v] = product_key
        \/ Contains(s, Lower(product_key))
        \/ Contains(Lower(product_key), s)

\* the product value matches the signature value: equal ignoring case, equal
\* as numbers once mg is dropped, or one contains the other
ValueAgrees(product_value, signature_value) ==
    LET v == Strip(Lower(product_value))
        w == Strip(Lower(signature_value))
    IN  \/ v = w
        \/ /\ IsDigit(RemoveMg(RemoveChar(v, ".")))
           /\ IsDigit(RemoveMg(RemoveChar(w, ".")))
           /\ IsFloat(RemoveMg(v)) /\ IsFloat(RemoveMg(w))
           /\ FloatOf(RemoveMg(v)) = FloatOf(RemoveMg(w))
        \/ Contains(v, w)
        \/ Contains(w, v)

\* the stored variant whose id the call returned
ReturnedVariant ==
    existing_variants[CHOOSE k \in 1..Len(existing_variants) :
                          existing_variants[k].id = existing_variant_id]

\* the attributes of the product of the call that belong to a signature key
\* of some stored variant
IsSignatureAttribute(kv) ==
    \E k \in 1..Len(existing_variants) :
        \E p \in 1..Len(existing_variants[k].attribute_dict) :
            KeyCorresponds(existing_variants[k].attribute_dict[p][1], kv[1])

SignatureAttributes == SelectSeq(all_products[1].attributes, IsSignatureAttribute)

\* C20: a returned variant with a non-empty signature has, for every pair of
\* its signature, a product attribute of the corresponding key whose value is
\* not empty and matches the signature value; and the attributes of the
\* product that belong to no signature do not change the returned id.
C20_SignatureDrivenIdentity ==
    pc = "variant_return" =>
        /\ (existing_variant_id \notin {NoVariant, Raised}
               /\ ReturnedVariant.attribute_dict # <<>>) =>
               \A p \in 1..Len(ReturnedVariant.attribute_dict) :
                   \E a \in 1..Len(all_products[1].attributes) :
                       LET kv == all_products[1].attributes[a]
                       IN  /\ KeyCorresponds(ReturnedVariant.attribute_dict[p][1], kv[1])
                           /\ Strip(kv[2]) # <<>>
                           /\ ValueAgrees(kv[2], ReturnedVariant.attribute_dict[p][2])
        /\ existing_variant_id =
               ScanVariants(existing_variants, Lower(matching_template.template_name),
                            SignatureAttributes)

\* C20 for the products that carry no blank value
C20_WithoutBlankValues ==
    pc = "variant_return" =>
        ((\A a \in 1..Len(all_products[1].attributes) :
              all_products[1].attributes[a][2] = <<>>
                  \/ Strip(all_products[1].attributes[a][2]) # <<>>)
             => C20_SignatureDrivenIdentity)

\* the stored variants the loop considers for the matched template
CandidateVariants ==
    { k \in 1..Len(existing_variants) :
        /\ existing_variants[k].id.prefix = ExportPrefix
        /\ Lower(existing_variants[k].template_name) =
               Lower(matching_template.template_name) }

\* the signature of stored variant k is fully matched by the product
FullyMatched(k) ==
    StoredAttributesMatch(existing_variants[k].attribute_dict,
                          all_products[1].attributes) = "match"

\* the variant dict loaded in the opposite order
ReversedVariants ==
    [k \in 1..Len(existing_variants) |->
        existing_variants[Len(existing_variants) + 1 - k]]

\* C21: among the variants of the matched template with distinct non-empty
\* signatures at most one has its signature fully matched by the product,
\* and the returned id is the same when the variants are loaded in the
\* opposite order.
C21_AtMostOneVariant ==
    pc = "variant_return" =>
        /\ \A i, j \in CandidateVariants :
               ( /\ i # j
                 /\ existing_variants[i].attribute_dict # <<>>
                 /\ existing_variants[j].attribute_dict # <<>>
                 /\ existing_variants[i].attribute_dict #
                        existing_variants[j].attribute_dict )
               => ~(FullyMatched(i) /\ FullyMatched(j))
        /\ ( \A i, j \in CandidateVariants :
                 /\ existing_variants[i].attribute_dict # <<>>
                 /\ (i # j => existing_variants[i].attribute_dict #
                                  existing_variants[j].attribute_dict) )
           => existing_variant_id =
                  ScanVariants(ReversedVariants,
                               Lower(matching_template.template_name),
                               all_products[1].attributes)

\* axis a of the returned call resolves: the product carries a value for it
\* that matches a value name of its vocabulary by one of the four rules
AxisResolves(a) ==
    /\ AxisPresent(a)
    /\ AxisValue(a) # <<>>
    /\ \E n \in 1..Len(Vocabulary(a)) :
           ValueMatchesByRule(AxisValue(a), Vocabulary(a)[n][1])

ResolvedAxes ==
    { a \in 1..Len(matching_template.attribute_values) : AxisResolves(a) }

\* the r-th resolved axis in the axis order of the template
NthResolved(r) ==
    CHOOSE a \in ResolvedAxes :
        Cardinality({ b \in ResolvedAxes : b <= a }) = r

\* C22: the returned list holds, in the axis order of the template, exactly
\* one value id for each axis that resolved and nothing for the other axes;
\* each id is a value id of that axis in the template's own attribute-value
\* map; an unresolved axis does not empty the list when another axis
\* resolved.
C22_PartialResolution ==
    pc = "axis_return" =>
        /\ Len(template_value_ids) = Cardinality(ResolvedAxes)
        /\ \A r \in 1..Len(template_value_ids) :
               \E n \in 1..Len(Vocabulary(NthResolved(r))) :
                   template_value_ids[r] = Vocabulary(NthResolved(r))[n][2]
        /\ ResolvedAxes # {} => template_value_ids # <<>>

\* C22 witness: a template of two axes of which the first does not resolve
\* and the second does, and a list of one id
C22_Witness ==
    /\ pc = "axis_return"
    /\ Len(matching_template.attribute_values) = 2
    /\ ~AxisResolves(1)
    /\ AxisResolves(2)
    /\ Len(template_value_ids) = 1

\* the rows of the variant export and the positions that start a variant
ExportRow(n) == odoo_product_variant_csv[n]

IdRows == { n \in 1..Len(odoo_product_variant_csv) : ExportRow(n).ID # NoVariant }

\* the last row of the block that starts at ID row i: the row before the next
\* ID row
BlockEnd(i) ==
    IF \E n \in IdRows : n > i
    THEN (CHOOSE n \in IdRows : n > i /\ \A m \in IdRows : m > i => n <= m) - 1
    ELSE Len(odoo_product_variant_csv)

\* the attribute line "AttrName: Value" of a row as a pair <<name, value>>
LinePair(row) ==
    LET parts == SplitOnce(Strip(CellStr(row.Values)), ":")
    IN  <<Lower(Strip(parts[1])), Strip(parts[2])>>

\* the attribute lines of the rows i..j
LinesOf(i, j) ==
    { LinePair(ExportRow(n)) :
          n \in { m \in i..j : Strip(CellStr(ExportRow(m).Values)) # <<>> } }

\* the pairs of the signature of the loaded variant with the given id
LoadedSignature(id) ==
    LET v == CHOOSE k \in 1..Len(existing_variants) : existing_variants[k].id = id
    IN  { existing_variants[v].attribute_dict[p] :
              p \in 1..Len(existing_variants[v].attribute_dict) }

\* C23: after loading there is one variant per id of the export, and the
\* signature of the variant of an ID row is exactly the attribute lines of
\* that row and of the rows after it up to the next ID row: no line between
\* two ID rows is dropped and none is attached to another variant.
C23_SignatureIsBlock ==
    pc = "export_return" =>
        /\ { existing_variants[k].id : k \in 1..Len(existing_variants) } =
               { ExportRow(i).ID : i \in IdRows }
        /\ \A i \in IdRows :
               (\A n \in IdRows : n > i => ExportRow(n).ID # ExportRow(i).ID)
               => LoadedSignature(ExportRow(i).ID) = LinesOf(i, BlockEnd(i))

\* C23 for the exports in which every row without an id is a continuation
\* row
C23_WellFormedExport ==
    pc = "export_return" =>
        ((\A n \in 1..Len(odoo_product_variant_csv) :
              n \in IdRows \/ IsContinuation(ExportRow(n)))
             => C23_SignatureIsBlock)

\* the template names the summary reports as new
NewTemplateNames ==
    { template_summary[i][1] : i \in { k \in 1..Len(template_summary) :
                                         template_summary[k][2].status = "new" } }

\* the rows of new_templates.csv that carry the name of a template
HeaderRows(template_name) ==
    { i \in 1..Len(new_templates) : new_templates[i].name = template_name }

\* the rows of the block that starts at row i: up to the next row with an id
TemplateBlock(i) ==
    LET later == { k \in (i + 1)..Len(new_templates) : new_templates[k].id # <<>> }
        last == IF later = {} THEN Len(new_templates)
                ELSE (CHOOSE k \in later : \A l \in later : k <= l) - 1
    IN  SubSeq(new_templates, i, last)

\* a row whose template fields are all empty
EmptyMetadata(row) ==
    /\ row.id = <<>>
    /\ row.name = <<>>
    /\ row.categ_id = <<>>
    /\ row.type = ""
    /\ row.sale_ok = ""
    /\ row.list_price = <<>>

\* the first row of the block of a template carries its metadata
FullMetadata(row, template_name) ==
    /\ row.id = GenerateTemplateExternalId(template_name)
    /\ row.name = template_name
    /\ row.categ_id # <<>>
    /\ row.type = "consu"
    /\ row.list_price = <<AveragePrice(Get(tb_templates, template_name).prices)>>

\* C24: every template name that matches no existing template has exactly one
\* block in new_templates.csv; the block has one row per attribute axis of
\* the template and at least one row; its first row carries the template
\* metadata and every later row of it has empty metadata fields
C24_NewTemplateBlock ==
    pc = "tmpl_done" =>
        \A template_name \in NewTemplateNames :
            /\ Cardinality(HeaderRows(template_name)) = 1
            /\ \A i \in HeaderRows(template_name) :
                   LET block == TemplateBlock(i)
                   IN  /\ Len(block) >= 1
                       /\ Len(block) = Len(Get(tb_templates, template_name).attributes)
                       /\ FullMetadata(block[1], template_name)
                       /\ \A k \in 2..Len(block) : EmptyMetadata(block[k])

\* C24 for the templates that have a row at all: at most one block, not more
\* rows than axes, metadata on the first row only
C24_BlockShape ==
    pc = "tmpl_done" =>
        \A template_name \in NewTemplateNames :
            /\ Cardinality(HeaderRows(template_name)) <= 1
            /\ \A i \in HeaderRows(template_name) :
                   LET block == TemplateBlock(i)
                   IN  /\ Len(block) <= Len(Get(tb_templates, template_name).attributes)
                       /\ FullMetadata(block[1], template_name)
                       /\ \A k \in 2..Len(block) : EmptyMetadata(block[k])

\* the axis an attribute id of the model's attribute export stands for
AxisOfAttributeId(attribute_id) ==
    CASE attribute_id = <<"a", "1">> -> K_flavor
      [] attribute_id = <<"a", "2">> -> K_nicotine_mg
      [] attribute_id = <<"a", "3">> -> K_volume_ml
      [] attribute_id = <<"a", "4">> -> K_color
      [] attribute_id = <<"a", "5">> -> K_resistance_ohm
      [] attribute_id = <<"a", "6">> -> K_coil_type
      [] OTHER -> <<>>

\* the position of an axis in a priority list; one past its end for the
\* axes the list does not name
PriorityRank(priority, axis) ==
    IF \E p \in 1..Len(priority) : priority[p] = axis
    THEN CHOOSE p \in 1..Len(priority) : priority[p] = axis
    ELSE Len(priority) + 1

\* the rows of every block follow the priority list: a row of a listed axis
\* comes after the rows of the axes listed before it and after no other row
BlocksFollow(priority) ==
    \A i \in 1..Len(new_templates) :
        new_templates[i].id # <<>> =>
            LET block == TemplateBlock(i)
                rank(k) == PriorityRank(priority,
                               AxisOfAttributeId(block[k].attribute_id))
            IN  \A k \in 1..Len(block) : \A l \in (k + 1)..Len(block) :
                    rank(l) <= Len(priority) => rank(k) < rank(l)

\* C25: within the block of a new template the axis rows appear in the
\* priority order flavor, nicotine level, resistance, coil type, color, model,
\* followed by the remaining axes
C25_AxisPriorityOrder ==
    pc = "tmpl_done" =>
        BlocksFollow(<<K_flavor, K_nicotine_mg, K_resistance_ohm, K_coil_type,
                       K_color, K_coil_model>>)

\* the order the rows do follow: flavor, nicotine_mg, volume_ml, then the
\* remaining axes
C25_ThreeAxisPriority ==
    pc = "tmpl_done" => BlocksFollow(attribute_priority)

\* lines 68-116 for one product: the counters it moves and the record it adds
ProductOutcome(product) ==
    LET template == FindMatchingTemplate(product, template_data)
        variant_id == FindExistingVariantId(product, template, existing_variants)
        value_ids == FindTemplateValueCombination(product, template)
    IN  IF template = NoTemplate THEN [kind |-> "template_miss"]
        ELSE IF variant_id = Raised THEN [kind |-> "raised"]
        ELSE IF variant_id = NoVariant THEN [kind |-> "attribute_miss"]
        ELSE IF value_ids = <<>> THEN [kind |-> "attribute_miss"]
        ELSE [kind |-> "variant",
              row |-> [id |-> variant_id,
                       name |-> template.template_name,
                       value_ids |-> value_ids,
                       default_code |-> product.sku,
                       standard_price |-> product.price]]

\* the loop of lines 68-116 over a collection
RECURSIVE PassLoop(_, _)
PassLoop(products, acc) ==
    IF products = <<>> \/ acc.raised THEN acc
    ELSE LET outcome == ProductOutcome(products[1])
             stats == acc.generation_stats
         IN  PassLoop(Tail(products),
                 CASE outcome.kind = "raised" -> [acc EXCEPT !.raised = TRUE]
                   [] outcome.kind = "template_miss" ->
                        [acc EXCEPT !.generation_stats.template_misses = @ + 1]
                   [] outcome.kind = "attribute_miss" ->
                        [acc EXCEPT !.generation_stats.template_matches = @ + 1,
                                    !.generation_stats.attribute_misses = @ + 1]
                   [] OTHER ->
                        [acc EXCEPT !.generation_stats.template_matches = @ + 1,
                                    !.generation_stats.variants_generated = @ + 1,
                                    !.variant_imports = Append(@, outcome.row)])

\* the pass of lines 56-162 over a collection, against the snapshot of the state
PassOver(products) ==
    LET acc == PassLoop(products,
                   [raised |-> FALSE,
                    generation_stats |-> NewStats(products, template_data),
                    variant_imports |-> <<>>])
    IN  IF acc.raised THEN [raised |-> TRUE]
        ELSE [raised |-> FALSE,
              generation_stats |-> acc.generation_stats,
              variant_imports |-> acc.variant_imports,
              missing_skus |-> MissingSkus(products,
                  { acc.variant_imports[k].default_code :
                        k \in 1..Len(acc.variant_imports) })]

\* the products of a collection at the positions of a set, in their order
RECURSIVE Shard(_, _, _)
Shard(products, positions, i) ==
    IF i > Len(products) THEN <<>>
    ELSE (IF i \in positions THEN <<products[i]>> ELSE <<>>)
         \o Shard(products, positions, i + 1)

\* what a pass leaves: nothing when it raised, otherwise the product counters,
\* the variant records and the entries of the miss report
Accumulators(outputs) ==
    IF outputs.raised THEN [raised |-> TRUE]
    ELSE [raised |-> FALSE,
          counters |-> [c \in {"total_products", "variants_generated",
                               "template_matches", "template_misses",
                               "attribute_misses"} |-> outputs.generation_stats[c]],
          variant_records |-> { outputs.variant_imports[k] :
                                  k \in 1..Len(outputs.variant_imports) },
          miss_entries |-> { outputs.missing_skus[k] :
                               k \in 1..Len(outputs.missing_skus) }]

\* the merge of the accumulators of two passes
MergeAccumulators(x, y) ==
    IF x.raised \/ y.raised THEN [raised |-> TRUE]
    ELSE [raised |-> FALSE,
          counters |-> [c \in DOMAIN x.counters |-> x.counters[c] + y.counters[c]],
          variant_records |-> x.variant_records \cup y.variant_records,
          miss_entries |-> x.miss_entries \cup y.miss_entries]

\* the accumulators of the pass of the state, once its report is written
PassAccumulators ==
    Accumulators(IF pc = "error" /\ Len(all_products) # 0
                 THEN [raised |-> TRUE]
                 ELSE [raised |-> FALSE, generation_stats |-> generation_stats,
                       variant_imports |-> variant_imports,
                       missing_skus |-> missing_skus])

\* the splits of the merged collection into two shards with a product each
ShardSplits ==
    { positions \in SUBSET (1..Len(all_products)) :
          positions # {} /\ positions # 1..Len(all_products) }

\* C26: the pass over two shards of the merged collection, against the same
\* snapshot, with the accumulators merged, gives the statistics, the variant
\* records and the miss-report entries of one pass over the whole collection,
\* in either order of the shards
C26_ShardablePass ==
    (run = 1 /\ pc \in {"return", "done", "error"}) =>
        \A positions \in ShardSplits :
            LET one == Accumulators(PassOver(Shard(all_products, positions, 1)))
                other == Accumulators(PassOver(Shard(all_products,
                             (1..Len(all_products)) \ positions, 1)))
            IN  /\ MergeAccumulators(one, other) = PassAccumulators
                /\ MergeAccumulators(other, one) = PassAccumulators

\* the pass over the whole collection as PassOver computes it is the pass of
\* the state
C26_PassOverAgrees ==
    (run = 1 /\ pc \in {"return", "done", "error"}) =>
        Accumulators(PassOver(all_products)) = PassAccumulators

\* C26, as the code has it: one of the two shard passes raises exactly when the
\* pass over the whole collection raises; otherwise the merged counters and
\* variant records are those of the whole pass, and the miss report of the
\* whole pass is the union of the shards' reports without the entries whose
\* sku is the sku of a variant record of either shard
C26_ShardableUpToSkus ==
    (run = 1 /\ pc \in {"return", "done", "error"}) =>
        \A positions \in ShardSplits :
            LET one == Accumulators(PassOver(Shard(all_products, positions, 1)))
                other == Accumulators(PassOver(Shard(all_products,
                             (1..Len(all_products)) \ positions, 1)))
                merged == MergeAccumulators(one, other)
                swapped == MergeAccumulators(other, one)
                whole == PassAccumulators
            IN  /\ merged.raised = whole.raised
                /\ swapped = merged
                /\ ~whole.raised =>
                       /\ merged.counters = whole.counters
                       /\ merged.variant_records = whole.variant_records
                       /\ whole.miss_entries =
                              { entry \in merged.miss_entries :
                                    \A record \in merged.variant_records :
                                        record.default_code # entry.sku }

\* a pass of two products with one variant record, in which the report of a
\* shard has an entry that the report of the whole pass has not
C26_Witness ==
    /\ run = 1
    /\ pc = "done"
    /\ Len(all_products) >= 2
    /\ variant_imports # <<>>
    /\ \E positions \in ShardSplits :
           Accumulators(PassOver(Shard(all_products, positions, 1))).miss_entries
               \ PassAccumulators.miss_entries # {}

\* the key of the call of _find_existing_attribute and what it returned
LookupKey == log[1].attr_name

LookupReturned == log[1].returned

\* the entries of the vocabulary whose name is the key, ignoring case
SameNameEntries ==
    { k \in 1..Len(existing_attributes) :
          Lower(existing_attributes[k][1]) = Lower(LookupKey) }

\* the members of the n-th alias group: its standard name and its variations
AliasGroup(n) == {AttrVariations[n][1]} \cup AttrVariations[n][2]

\* the entries whose name is in an alias group the key is in
SameGroupEntries ==
    { k \in 1..Len(existing_attributes) :
          \E n \in 1..Len(AttrVariations) :
              /\ Lower(existing_attributes[k][1]) \in AliasGroup(n)
              /\ Lower(LookupKey) \in AliasGroup(n) }

\* the entries for which one of the key and the name is the standard name of
\* a group and the other one of its variations
StandardNameEntries ==
    { k \in 1..Len(existing_attributes) :
          \E n \in 1..Len(AttrVariations) :
              \/ /\ Lower(existing_attributes[k][1]) = AttrVariations[n][1]
                 /\ Lower(LookupKey) \in AttrVariations[n][2]
              \/ /\ Lower(LookupKey) = AttrVariations[n][1]
                 /\ Lower(existing_attributes[k][1]) \in AttrVariations[n][2] }

EntriesAt(positions) == { existing_attributes[k][2] : k \in positions }

FirstEntryAt(positions) ==
    existing_attributes[CHOOSE k \in positions : \A m \in positions : k <= m][2]

\* C27: the lookup returns an entry whose name is the key ignoring case when
\* there is one; otherwise an entry whose name is in the alias group of the
\* key, for any two members of the group; None only when there is neither
C27_AttributeLookup ==
    pc = "lookup_return" =>
        IF SameNameEntries # {}
        THEN LookupReturned \in EntriesAt(SameNameEntries)
        ELSE IF SameGroupEntries # {}
        THEN LookupReturned \in EntriesAt(SameGroupEntries)
        ELSE LookupReturned = NoAttribute

\* C27, as the code has it: the first entry with the key's name ignoring case;
\* otherwise the first entry that pairs with the key as standard name and
\* variation of one group, in either direction; otherwise None
C27_StandardNameLookup ==
    pc = "lookup_return" =>
        IF SameNameEntries # {}
        THEN LookupReturned = FirstEntryAt(SameNameEntries)
        ELSE IF StandardNameEntries # {}
        THEN LookupReturned = FirstEntryAt(StandardNameEntries)
        ELSE LookupReturned = NoAttribute

\* the key is the standard name 'nicotine level', the vocabulary holds the
\* variation 'nicotine strength' after another attribute, and it is returned
C27_Witness ==
    /\ pc = "lookup_return"
    /\ LookupKey = K_nicotine_sp_level
    /\ SameNameEntries = {}
    /\ Len(existing_attributes) >= 2
    /\ existing_attributes[1][1] # S_nicotine_strength
    /\ LookupReturned.name = S_nicotine_strength

\* the products the loop has finished with
FinishedProducts == 1..(idx - 1)

\* the processed products with a given outcome
ProcessedAs(outcome) == { k \in FinishedProducts : log[k].outcome = outcome }

\* the loop is between two products, or past the last one
BetweenProducts == pc \in {"template_match", "report", "return", "done"}

\* every processed product has one of the three outcomes and each counter is
\* the number of products of its outcome
StatisticsPartition ==
    BetweenProducts =>
        /\ \A k \in FinishedProducts :
               log[k].outcome \in {"template_miss", "attribute_miss", "variant"}
        /\ generation_stats.template_misses = Cardinality(ProcessedAs("template_miss"))
        /\ generation_stats.attribute_misses = Cardinality(ProcessedAs("attribute_miss"))
        /\ generation_stats.variants_generated = Cardinality(ProcessedAs("variant"))
        /\ generation_stats.template_matches + generation_stats.template_misses
               = Cardinality(FinishedProducts)
        /\ generation_stats.variants_generated + generation_stats.attribute_misses
               = generation_stats.template_matches
        /\ generation_stats.variants_generated = Len(variant_imports)
        /\ pc \in {"report", "return", "done"} =>
               generation_stats.template_misses + generation_stats.attribute_misses
                   + generation_stats.variants_generated
                   = generation_stats.total_products

\* no step of the pass lowers a counter
CountersGrow ==
    \A c \in {"variants_generated", "template_matches", "template_misses",
              "attribute_misses"} :
        generation_stats'[c] >= generation_stats[c]

\* C28: after any prefix of the pass every processed product has been counted
\* in exactly one of template_misses, attribute_misses, variants_generated;
\* the counters add up as the stages imply, variants_generated is the number
\* of variant records, no counter ever decreases, and at the end the three
\* outcome counters sum to total_products
C28_StatisticsPartition == []StatisticsPartition /\ [][CountersGrow]_vars

\* a finished pass with a variant record and an attribute miss
C28_Witness ==
    /\ pc = "done"
    /\ generation_stats.total_products >= 2
    /\ generation_stats.attribute_misses >= 1
    /\ generation_stats.variants_generated >= 1

\* the product value of axis a consists of digits only
DigitOnly(a) == AxisPresent(a) /\ IsDigit(AxisValue(a))

\* the vocabulary values of axis a that are the product value or have it as
\* their first numeric token
CarriesNumber(a) ==
    { n \in 1..Len(Vocabulary(a)) :
          \/ VocabularyValue(a, n) = AxisValue(a)
          \/ FirstNumber(VocabularyValue(a, n)) = AxisValue(a) }

\* C29: for a product value n of digits only, an axis that resolves is
\* resolved to a vocabulary value that equals n or has n as its first numeric
\* token, and the axis stays unresolved when no vocabulary value carries n
C29_SameNumber ==
    pc = "value_return" =>
        \A a \in 1..Len(matching_template.attribute_values) :
            DigitOnly(a) =>
                /\ AxisResolved(a) => ChosenValue(a) \in CarriesNumber(a)
                /\ CarriesNumber(a) = {} => ~AxisResolved(a)

\* C29, as the code has it: the chosen value equals n or has n as its first
\* numeric token whenever the vocabulary has such a value; when it has none,
\* the chosen value is one that contains n or is contained in n
C29_SameNumberOrContained ==
    pc = "value_return" =>
        \A a \in 1..Len(matching_template.attribute_values) :
            (DigitOnly(a) /\ AxisResolved(a)) =>
                IF CarriesNumber(a) # {}
                THEN ChosenValue(a) \in CarriesNumber(a)
                ELSE ChosenValue(a) \in ContainmentValues(a)

\* product value 3 against a vocabulary that holds 30MG and no value with the
\* number 3: the axis resolves to 30MG
C29_Witness ==
    /\ pc = "value_return"
    /\ \E a \in 1..Len(matching_template.attribute_values) :
           /\ DigitOnly(a)
           /\ AxisValue(a) = S_3
           /\ CarriesNumber(a) = {}
           /\ AxisResolved(a)
           /\ Vocabulary(a)[ChosenValue(a)][1] = <<"3", "0", "M", "G">>

\* the value rows of the shared variant-type attribute
HardwareValueRows ==
    { i \in 1..Len(hardware_attributes) :
          hardware_attributes[i].attribute_id = S_variant_type }

\* the value ids the template rows and the variant rows refer to
ReferencedValueIds ==
    UNION { { hardware_templates[t].value_ids[k] :
                k \in 1..Len(hardware_templates[t].value_ids) } :
            t \in 1..Len(hardware_templates) }
    \cup { hardware_variants[v].value_id : v \in 1..Len(hardware_variants) }

\* C30: every value id that a hardware template row or a hardware variant row
\* refers to is defined by exactly one value row of the shared variant-type
\* attribute, and no two variant rows of one hardware template refer to the
\* same value id
C30_ReferentiallyClosed ==
    pc = "hardware_done" =>
        /\ \A id \in ReferencedValueIds :
               Cardinality({ i \in HardwareValueRows :
                               hardware_attributes[i].id = id }) = 1
        /\ \A v, w \in 1..Len(hardware_variants) :
               (v # w /\ hardware_variants[v].name = hardware_variants[w].name)
                   => hardware_variants[v].value_id # hardware_variants[w].value_id

\* what the rows do satisfy: a value row is written once per description, and
\* every value id referred to is the id of the description of a product of
\* its own group
C30_OneRowPerDescription ==
    pc = "hardware_done" =>
        /\ \A i, j \in HardwareValueRows :
               hardware_attributes[i].name = hardware_attributes[j].name => i = j
        /\ \A v \in 1..Len(hardware_variants) :
               \E i \in HardwareValueRows :
                   hardware_variants[v].value_id =
                       VariantValueId(hardware_variants[v].name,
                                      hardware_attributes[i].name)

====
